---- MODULE Spec2Model ----
(***************************************************************************)
(* A model of eddi's message server (src/src/msgserver): the TTL-bounded   *)
(* MessageQueue, the ClientManager registry, the StateManager client-code  *)
(* table and the MessageBroker that drives them.                           *)
(*                                                                         *)
(* SpecQueue drives the MessageQueue through its public operations with a  *)
(* clock that advances between them.  Spec drives the broker: sessions are *)
(* accepted, send commands, close, and the broker handles one command at a *)
(* time, as its event loop does.                                           *)
(***************************************************************************)
EXTENDS Integers, Sequences, FiniteSets, TLC

\* ------------------------------------------------------------------ bounds
MaxSize == 2          \* largest max_size a queue is constructed with
MaxTtl == 1           \* largest ttl (clock units) a queue is constructed with
MaxNow == 3           \* the clock advances from 0 up to this value
MaxPush == 3          \* pushes completed in one behaviour
MaxSessions == 2      \* sessions accepted in one behaviour
MaxCmds == 3          \* client messages the broker handles in one behaviour

Senders == {"c1", "c2"}
Contents == {"x"}

VARIABLES
    max_size,   \* MessageQueue.max_size
    ttl,        \* MessageQueue.ttl
    messages,   \* MessageQueue.messages, oldest first
    now,        \* SystemTime::now()
    next_id,    \* the next fresh Message.id (Uuid::new_v4 never repeats)
    hung,       \* a push is spinning in its eviction loop, holding the write lock
    ret,        \* what the last queue operation returned, and when
    pushed,     \* every message a push has returned, in push order
    cleared,    \* clear() has been called
    has_store,  \* MessageBroker.state_manager is Some
    server_id,  \* MessageBroker.server_id, NoServer for None
    db_clients, \* StateManager's clients table: code -> record
    clients,    \* ClientManager.clients: session id -> ClientConnection
    outbound,   \* per session, every ProtocolMessage enqueued on its tx, in order
    rx_open,    \* sessions whose outbound receiver has not been dropped
    next_client,\* the next fresh session id (Uuid::new_v4 never repeats)
    handled,    \* number of client messages handled
    rd_state,   \* handle_client_stream: "start", "reading", "ok" or "err" (returned)
    rd_log,     \* what the read loop did with each line it read, in order
    client_tx,  \* every ProtocolMessage sent on client_tx, in order
    client_rx_open,   \* the receiver of client_tx has not been dropped
    broker_tx,  \* messages sent on broker_tx that the forwarder has not taken
    incoming_rx_open, \* the forwarder task still holds incoming_rx
    commands,   \* BrokerCommands sent to the broker for this session, in order
    broker_rx_open,   \* the broker loop still holds its command receiver
    bridge,     \* which request loop: "web" (run_eddi) or "msgsrv" (new_server)
    listening,  \* the request loop has not seen the end of its request stream
    tasks,      \* the handler task spawned for each request taken, in order
    written,    \* per direction, the bytes the source side has written
    pending,    \* per direction, bytes written that the copy has not read yet
    buf,        \* per direction, bytes the copy has read and not yet written
    delivered,  \* per direction, the bytes written to the destination side
    src_closed, \* per direction, the source side has closed its write side
    dir_done,   \* per direction, the copy saw EOF and shut the destination down
    copy_state, \* copy_bidirectional: "running", "ok" or "err" (returned)
    idents,     \* the calls of generate_broker_identifier made, with their results
    broker_hs,  \* the BrokerHandshake constructed, if any (a sequence of 0 or 1)
    client_ids, \* the last result of possible_identifiers, if any, with its inputs
    token_now,  \* SystemTime::now(), in seconds, as the token code reads it
    next_token, \* the next fresh access token (32 random characters never repeat)
    intros,     \* every IntroductionData issued, with its time of issue and ttl
    valid_tokens,     \* FortressBroker.valid_tokens
    token_use,  \* the last validate_token call and its result (0 or 1 entries)
    lkind,      \* how the ServerInstance was made: "server" or "broker"
    inst,       \* the owner's ServerInstance: "running", "shutdown" (called) or "dropped"
    shutdown_ret,     \* what the last shutdown() returned: "none", "ok" or "err"
    timer,      \* new_broker's timeout task: "none", "armed" or "fired"
    shutdown_q, \* () messages sent on shutdown_tx that the listener has not received
    lis_pc,     \* run_listener: "start", "select", "session", "done" or "failed"
    socket_file,      \* the UDS file exists at socket_path
    backlog,    \* connections made to the socket that accept has not returned yet
    conns,      \* per connection accepted, in order: its client and forwarder task
    loop_running,     \* the task running MessageBroker::run has not finished
    loop_cmds,  \* BrokerCommands sent that the broker loop has not received yet
    foreign_keys,     \* the linked SQLite enforces foreign keys on a new connection
    db_servers, \* StateManager's servers table: a set of rows
    db_connections,   \* StateManager's connections table: the server_names stored
    instances,  \* ServerManager.servers: name -> id of the running instance
    calls,      \* the create_server calls made, in order, each with its position
    deleted,    \* the ids of the server rows that delete_server has removed
    mgr,        \* the ChildProcessManager: "none", "alive" or "dropped"
    spawn_ret,  \* the last spawn: its result, and whether it found a file to remove
    child,      \* the child process: "none", "running", "exited" (not reaped), "reaped"
    path_file,  \* a file exists at ProcessConfig.socket_path
    wait_ret,   \* wait_for_socket: "none", "waiting", "ok" or "timeout"
    polls,      \* polls of the socket path made by the current wait_for_socket
    spawns,     \* calls of spawn made
    write_task, \* handle_client_stream's write task: "running", "ended" or "aborted"
    writer_rx,  \* the messages waiting in the channel the write task receives on
    wire,       \* the messages written to the transport's write half, in order
    cmd_rx,     \* the broker's command channel: the commands waiting, oldest first
    cmd_sent,   \* the commands sent on the channel with success, in order
    cmd_log,    \* the commands the broker loop has received, in order
    loop_on,    \* MessageBroker::run is in its loop
    bc,         \* the newest broadcast: where it is, its failed Vec, and the
                \* registry and the open receivers at its call, the registry at its return
    connect_ret, \* the last handle_connect, if any: its inputs, candidates and result
    stop_ret    \* the last stop_server, if any: its name and its result

qvars == <<max_size, ttl, messages, now, next_id, hung, ret, pushed, cleared>>
bvars == <<has_store, server_id, db_clients, clients, outbound, rx_open,
           next_client, handled>>
svars == <<rd_state, rd_log, client_tx, client_rx_open, broker_tx,
           incoming_rx_open, commands, broker_rx_open>>
\* The state outside the queue and the broker's registry.
gvars == <<bridge, listening, tasks>>
cvars == <<written, pending, buf, delivered, src_closed, dir_done, copy_state>>
hvars == <<idents, broker_hs, client_ids>>
tvars == <<token_now, next_token, intros, valid_tokens, token_use>>
lvars == <<lkind, inst, shutdown_ret, timer, shutdown_q, lis_pc, socket_file,
           backlog, conns, loop_running, loop_cmds>>
dvars == <<foreign_keys, db_servers, db_connections, instances, calls, deleted>>
pvars == <<mgr, spawn_ret, child, path_file, wait_ret, polls, spawns>>
wvars == <<write_task, writer_rx, wire>>
kvars == <<cmd_rx, cmd_sent, cmd_log, loop_on, bc>>
nvars == <<connect_ret, stop_ret>>
xvars == <<svars, gvars, cvars, hvars, tvars, lvars, dvars, pvars, wvars, kvars, nvars>>
non_svars == <<qvars, bvars, gvars, cvars, hvars, tvars, lvars, dvars, pvars, wvars, kvars, nvars>>
non_gvars == <<qvars, bvars, svars, cvars, hvars, tvars, lvars, dvars, pvars, wvars, kvars, nvars>>
non_cvars == <<qvars, bvars, svars, gvars, hvars, tvars, lvars, dvars, pvars, wvars, kvars, nvars>>
non_hvars == <<qvars, bvars, svars, gvars, cvars, tvars, lvars, dvars, pvars, wvars, kvars, nvars>>
non_tvars == <<qvars, bvars, svars, gvars, cvars, hvars, lvars, dvars, pvars, wvars, kvars, nvars>>
non_lvars == <<qvars, bvars, svars, gvars, cvars, hvars, tvars, dvars, pvars, wvars, kvars, nvars>>
non_dvars == <<qvars, svars, gvars, cvars, hvars, tvars, lvars, pvars, wvars, kvars, nvars>>
non_pvars == <<qvars, bvars, svars, gvars, cvars, hvars, tvars, lvars, dvars, wvars, kvars, nvars>>
non_wvars == <<qvars, bvars, svars, gvars, cvars, hvars, tvars, lvars, dvars, pvars, kvars, nvars>>
\* The broker loop's handlers change the queue and the registry as well.
non_kvars == <<svars, gvars, cvars, hvars, tvars, lvars, dvars, pvars, wvars, nvars>>
vars == <<qvars, bvars, xvars>>

\* ServerInstance::handle_connection up to its call of handle_client_stream:
\* fresh channels, the forwarder task spawned.
StreamInit ==
    /\ rd_state = "start"
    /\ rd_log = <<>>
    /\ client_tx = <<>>
    /\ client_rx_open = TRUE
    /\ broker_tx = <<>>
    /\ incoming_rx_open = TRUE
    /\ commands = <<>>
    /\ broker_rx_open = TRUE

\* A request loop about to poll its request stream for the first time.
BridgeInit ==
    /\ bridge \in {"web", "msgsrv"}
    /\ listening = TRUE
    /\ tasks = <<>>

\* The two directions of a splice: overlay stream to UDS, UDS to overlay stream.
Dirs == {"to_uds", "to_onion"}

\* copy_bidirectional called on two fresh streams.
SpliceInit ==
    /\ written = [d \in Dirs |-> <<>>]
    /\ pending = [d \in Dirs |-> <<>>]
    /\ buf = [d \in Dirs |-> <<>>]
    /\ delivered = [d \in Dirs |-> <<>>]
    /\ src_closed = [d \in Dirs |-> FALSE]
    /\ dir_done = [d \in Dirs |-> FALSE]
    /\ copy_state = "running"

\* No handshake made yet.
HandshakeInit ==
    /\ idents = <<>>
    /\ broker_hs = <<>>
    /\ client_ids = <<>>

\* FortressBroker::new: no token is valid, no introduction has been issued.
TokenInit ==
    /\ token_now = 0
    /\ next_token = 1
    /\ intros = <<>>
    /\ valid_tokens = {}
    /\ token_use = <<>>

\* ServerInstance::new_server (kind "server") or new_broker (kind "broker")
\* has returned: the broker task and the listener task are spawned, and for a
\* broker the timeout task sleeps.
ListenerInit ==
    /\ lkind \in {"server", "broker"}
    /\ inst = "running"
    /\ shutdown_ret = "none"
    /\ timer = IF lkind = "broker" THEN "armed" ELSE "none"
    /\ shutdown_q = 0
    /\ lis_pc = "start"
    /\ socket_file \in BOOLEAN
    /\ backlog = 0
    /\ conns = <<>>
    /\ loop_running = TRUE
    /\ loop_cmds = <<>>

\* StateManager::new on an empty directory and ServerManager::new: empty
\* tables, no instance.  The SQLite library is built with foreign keys on by
\* default or off by default; the program never sets the pragma.
StoreInit ==
    /\ foreign_keys \in BOOLEAN
    /\ db_servers = {}
    /\ db_connections = {}
    /\ instances = <<>>
    /\ calls = <<>>
    /\ deleted = {}

\* The write task of a session whose handler has not started: nothing waits in
\* its channel and nothing has been written.
WriterInit ==
    /\ write_task = "running"
    /\ writer_rx = <<>>
    /\ wire = <<>>

\* MessageBroker::new: an empty command channel, the loop about to run.
LoopInit ==
    /\ cmd_rx = <<>>
    /\ cmd_sent = <<>>
    /\ cmd_log = <<>>
    /\ loop_on = TRUE
    /\ bc = [pc |-> "none", failed |-> {}, before |-> <<>>, open |-> {},
             after |-> <<>>]

\* No connect command and no stop_server has run.
ConnectInit == connect_ret = <<>> /\ stop_ret = <<>>

\* No child process has been spawned; a file may be left at the socket path.
ChildInit ==
    /\ mgr = "none"
    /\ spawn_ret = <<>>
    /\ child = "none"
    /\ path_file \in BOOLEAN
    /\ wait_ret = "none"
    /\ polls = 0
    /\ spawns = 0

\* The child supervisor at rest.
PInit == ChildInit /\ ~path_file

\* The handshake, token, listener and store state, as constructed.
YInit ==
    /\ PInit
    /\ HandshakeInit
    /\ TokenInit
    /\ ListenerInit
    /\ lkind = "server"
    /\ ~socket_file
    /\ StoreInit
    /\ foreign_keys

\* The state outside the queue and the registry, as constructed.
XInit == StreamInit /\ WriterInit /\ LoopInit /\ ConnectInit /\ BridgeInit /\ bridge = "web" /\ SpliceInit /\ YInit

\* ----------------------------------------------------------------- Message
\* Message::new: stamped now, expiring at now + ttl.
Message_new(id, from, content, t, d) ==
    [id |-> id, from |-> from, content |-> content,
     timestamp |-> t, expires_at |-> t + d]

is_expired_strict(m, t) == t > m.expires_at

\* Message::is_expired: SystemTime::now() >= self.expires_at
is_expired(m, t) == t >= m.expires_at

\* queue.retain(|m| !m.is_expired())
retain(q, t) == SelectSeq(q, LAMBDA m : ~is_expired(m, t))

RECURSIVE enforce_max_size_gt(_, _)
enforce_max_size_gt(q, cap) ==
    IF Len(q) > cap
    THEN IF Len(q) = 0
         THEN [returns |-> FALSE, q |-> q]
         ELSE enforce_max_size_gt(Tail(q), cap)
    ELSE [returns |-> TRUE, q |-> q]

RECURSIVE enforce_max_size_pop_back(_, _)
enforce_max_size_pop_back(q, cap) ==
    IF Len(q) >= cap
    THEN IF Len(q) = 0
         THEN [returns |-> FALSE, q |-> q]
         ELSE enforce_max_size_pop_back(SubSeq(q, 1, Len(q) - 1), cap)
    ELSE [returns |-> TRUE, q |-> q]

\* while queue.len() >= self.max_size { queue.pop_front(); }
\* pop_front on an empty queue removes nothing, so with the condition still
\* true on an empty queue the loop never ends (returns = FALSE).
RECURSIVE enforce_max_size(_, _)
enforce_max_size(q, cap) ==
    IF Len(q) >= cap
    THEN IF Len(q) = 0
         THEN [returns |-> FALSE, q |-> q]
         ELSE enforce_max_size(Tail(q), cap)
    ELSE [returns |-> TRUE, q |-> q]

NoRet == [op |-> "none", at |-> 0, result |-> <<>>, n |-> 0]

push_unstored(q, id, from, content, t) ==
    LET m == Message_new(id, from, content, t, ttl)
        e == enforce_max_size(retain(q, t), max_size)
    IN  [returns |-> e.returns, message |-> m, q |-> e.q]

\* MessageQueue::push on queue q at time t: scrub, evict, append.  returns is
\* FALSE when the eviction loop never ends.
push(q, id, from, content, t) ==
    LET m == Message_new(id, from, content, t, ttl)
        e == enforce_max_size(retain(q, t), max_size)
    IN  [returns |-> e.returns,
         message |-> m,
         q |-> IF e.returns THEN Append(e.q, m) ELSE e.q]

\* MessageQueue::get_all
get_all(q, t) == [q |-> retain(q, t), result |-> retain(q, t)]

\* MessageQueue::get_since
get_since(q, t, since) ==
    [q |-> retain(q, t),
     result |-> SelectSeq(retain(q, t), LAMBDA m : m.timestamp >= since)]

\* MessageQueue::len
len(q, t) == [q |-> retain(q, t), n |-> Len(retain(q, t))]

\* ------------------------------------------------------- MessageQueue steps
\* A call of push: the queue state after it, and what it returned.
QueuePush(from, content) ==
    LET p == push(messages, next_id, from, content, now)
    IN  /\ ~hung
        /\ messages' = p.q
        /\ hung' = ~p.returns
        /\ IF p.returns
           THEN /\ ret' = [op |-> "push", at |-> now, result |-> <<p.message>>, n |-> 0]
                /\ pushed' = Append(pushed, p.message)
                /\ next_id' = next_id + 1
           ELSE UNCHANGED <<ret, pushed, next_id>>
        /\ UNCHANGED <<max_size, ttl, now, cleared>>

\* A call of get_all
QueueGetAll ==
    /\ ~hung
    /\ messages' = get_all(messages, now).q
    /\ ret' = [op |-> "get_all", at |-> now, n |-> 0,
               result |-> get_all(messages, now).result]
    /\ UNCHANGED <<max_size, ttl, now, next_id, hung, pushed, cleared>>

\* A call of get_since
QueueGetSince(since) ==
    /\ ~hung
    /\ messages' = get_since(messages, now, since).q
    /\ ret' = [op |-> "get_since", at |-> now, n |-> 0,
               result |-> get_since(messages, now, since).result]
    /\ UNCHANGED <<max_size, ttl, now, next_id, hung, pushed, cleared>>

\* A call of len
QueueLen ==
    /\ ~hung
    /\ messages' = len(messages, now).q
    /\ ret' = [op |-> "len", at |-> now, result |-> <<>>, n |-> len(messages, now).n]
    /\ UNCHANGED <<max_size, ttl, now, next_id, hung, pushed, cleared>>

\* MessageQueue::clear
QueueClear ==
    /\ ~hung
    /\ messages' = <<>>
    /\ ret' = [op |-> "clear", at |-> now, result |-> <<>>, n |-> 0]
    /\ cleared' = TRUE
    /\ UNCHANGED <<max_size, ttl, now, next_id, hung, pushed>>

\* One tick of the task started by MessageQueue::start_cleanup_task.
CleanupTick ==
    /\ ~hung
    /\ messages' = retain(messages, now)
    /\ UNCHANGED <<max_size, ttl, now, next_id, hung, ret, pushed, cleared>>
    /\ UNCHANGED <<bvars, xvars>>

\* The clock advances between operations.
Tick ==
    /\ now < MaxNow
    /\ now' = now + 1
    /\ UNCHANGED <<max_size, ttl, messages, next_id, hung, ret, pushed, cleared>>
    /\ UNCHANGED <<bvars, xvars>>

\* ---------------------------------------------------------------- SpecQueue
Push == \E from \in Senders, content \in Contents :
            /\ Len(pushed) < MaxPush
            /\ QueuePush(from, content)
            /\ UNCHANGED <<bvars, xvars>>
GetAll == QueueGetAll /\ UNCHANGED <<bvars, xvars>>
GetSince == \E since \in 0..MaxNow : QueueGetSince(since) /\ UNCHANGED <<bvars, xvars>>
QLen == QueueLen /\ UNCHANGED <<bvars, xvars>>
Clear == QueueClear /\ UNCHANGED <<bvars, xvars>>

\* MessageQueue::new
QueueInit ==
    /\ max_size \in 0..MaxSize
    /\ ttl \in 0..MaxTtl
    /\ messages = <<>>
    /\ now = 0
    /\ next_id = 1
    /\ hung = FALSE
    /\ ret = NoRet
    /\ pushed = <<>>
    /\ cleared = FALSE

\* SpecQueue has no broker around the queue.
NoBroker ==
    /\ has_store = FALSE
    /\ server_id = "none"
    /\ db_clients = <<>>
    /\ clients = <<>>
    /\ outbound = <<>>
    /\ rx_open = {}
    /\ next_client = 1
    /\ handled = 0

NextQueue == Push \/ GetAll \/ GetSince \/ QLen \/ Clear \/ CleanupTick \/ Tick

\* A queue constructed on its own.
InitQueue == QueueInit /\ NoBroker /\ XInit

SpecQueue == InitQueue /\ [][NextQueue]_vars

\* ------------------------------------------------------------ StateManager
NoServer == "none"
ThisServer == "S1"
OtherServer == "S2"
Codes == {"K1", "K2"}
AuthCodes == Codes \cup {"bad"}
SessionIds == 1..MaxSessions

\* The clients table before any session: one code created for this server and
\* one for another server (StateManager::create_client: status pending,
\* connected_at NULL).  An Option is a sequence of length 0 or 1.
InitialClients ==
    [c \in Codes |->
        [id |-> IF c = "K1" THEN "u1" ELSE "u2",
         server_id |-> IF c = "K1" THEN ThisServer ELSE OtherServer,
         code |-> c,
         status |-> "pending",
         connected_at |-> <<>>]]

\* StateManager::get_client_by_code: SELECT ... WHERE code = ?1, ignoring status.
get_client_by_code(db, code) ==
    IF code \in DOMAIN db THEN <<db[code]>> ELSE <<>>

update_client_status_by_code(db, id, status, t) ==
    [c \in DOMAIN db |->
        IF db[c].code = id
        THEN [db[c] EXCEPT !.status = status,
                           !.connected_at = IF status = "connected" THEN <<t>> ELSE <<>>]
        ELSE db[c]]

\* StateManager::update_client_status:
\* UPDATE clients SET status = ?1, connected_at = ?2 WHERE id = ?3
update_client_status(db, id, status, t) ==
    [c \in DOMAIN db |->
        IF db[c].id = id
        THEN [db[c] EXCEPT !.status = status,
                           !.connected_at = IF status = "connected" THEN <<t>> ELSE <<>>]
        ELSE db[c]]

\* ------------------------------------------------------------ ProtocolMessage
AuthResponse(success, message) ==
    [type |-> "auth_response", success |-> success, message |-> message,
     server_id |-> server_id]
Broadcast(m) == [type |-> "broadcast", message |-> m]
ReceiveResponse(ms) == [type |-> "receive_response", messages |-> ms]
Pong == [type |-> "pong"]

\* ------------------------------------------------------------- ClientManager
ClientConnection_send_front(out, id, msg) ==
    IF id \in rx_open
    THEN [ok |-> TRUE, out |-> [out EXCEPT ![id] = <<msg>> \o @]]
    ELSE [ok |-> FALSE, out |-> out]

\* ClientConnection::send: tx.send fails once the receiver has been dropped.
ClientConnection_send(out, id, msg) ==
    IF id \in rx_open
    THEN [ok |-> TRUE, out |-> [out EXCEPT ![id] = Append(@, msg)]]
    ELSE [ok |-> FALSE, out |-> out]

\* ClientManager::authenticate_client
authenticate_client(reg, id) ==
    IF id \in DOMAIN reg
    THEN [ok |-> TRUE, reg |-> [reg EXCEPT ![id].authenticated = TRUE]]
    ELSE [ok |-> FALSE, reg |-> reg]

remove_client_authenticated_only(reg, id) ==
    IF id \in DOMAIN reg /\ reg[id].authenticated
    THEN [x \in DOMAIN reg \ {id} |-> reg[x]]
    ELSE reg

\* ClientManager::remove_client
remove_client(reg, id) == [x \in DOMAIN reg \ {id} |-> reg[x]]

broadcast_to_all(reg, out, m) ==
    LET scanned == DOMAIN reg
        failed == {id \in scanned : ~ClientConnection_send(out, id, Broadcast(m)).ok}
    IN  [scanned |-> scanned,
         failed |-> failed,
         out |-> [id \in DOMAIN out |->
                    IF id \in scanned
                    THEN ClientConnection_send(out, id, Broadcast(m)).out[id]
                    ELSE out[id]],
         reg |-> [x \in DOMAIN reg \ failed |-> reg[x]]]

broadcast_keeps_failed(reg, out, m) ==
    LET scanned == {id \in DOMAIN reg : reg[id].authenticated}
        failed == {id \in scanned : ~ClientConnection_send(out, id, Broadcast(m)).ok}
    IN  [scanned |-> scanned,
         failed |-> failed,
         out |-> [id \in DOMAIN out |->
                    IF id \in scanned
                    THEN ClientConnection_send(out, id, Broadcast(m)).out[id]
                    ELSE out[id]],
         reg |-> reg]

\* ClientManager::broadcast: enqueue Broadcast{message} on every authenticated
\* session, then remove the sessions whose enqueue failed.
broadcast(reg, out, m) ==
    LET scanned == {id \in DOMAIN reg : reg[id].authenticated}
        failed == {id \in scanned : ~ClientConnection_send(out, id, Broadcast(m)).ok}
    IN  [scanned |-> scanned,
         failed |-> failed,
         out |-> [id \in DOMAIN out |->
                    IF id \in scanned
                    THEN ClientConnection_send(out, id, Broadcast(m)).out[id]
                    ELSE out[id]],
         reg |-> [x \in DOMAIN reg \ failed |-> reg[x]]]

\* ------------------------------------------------------------- MessageBroker
send_to_client_authenticated(out, id, msg) ==
    IF id \in DOMAIN clients /\ clients[id].authenticated
    THEN ClientConnection_send(out, id, msg)
    ELSE [ok |-> FALSE, out |-> out]

\* MessageBroker::send_to_client
send_to_client(out, id, msg) ==
    IF id \in DOMAIN clients
    THEN ClientConnection_send(out, id, msg)
    ELSE [ok |-> FALSE, out |-> out]

\* MessageBroker::send_auth_response
send_auth_response(out, id, success, message) ==
    send_to_client(out, id, AuthResponse(success, message))

handle_auth_no_server_check(id, code) ==
    LET same == [reg |-> clients, db |-> db_clients, out |-> outbound]
        reject == [same EXCEPT
                      !.out = send_auth_response(outbound, id, FALSE, "Invalid code").out]
        a == authenticate_client(clients, id)
        found == get_client_by_code(db_clients, code)
    IN  IF has_store
        THEN IF found # <<>>
             THEN IF ~a.ok
                  THEN same
                  ELSE [reg |-> a.reg,
                        db |-> update_client_status(db_clients, found[1].id,
                                                    "connected", now),
                        out |-> send_auth_response(outbound, id, TRUE,
                                                   "Authenticated").out]
             ELSE reject
        ELSE IF ~a.ok
             THEN same
             ELSE [reg |-> a.reg,
                   db |-> db_clients,
                   out |-> send_auth_response(outbound, id, TRUE, "Authenticated").out]

handle_auth_reject_resets(id, code) ==
    LET same == [reg |-> clients, db |-> db_clients, out |-> outbound]
        reject == [reg |-> IF id \in DOMAIN clients
                           THEN [clients EXCEPT ![id].authenticated = FALSE]
                           ELSE clients,
                   db |-> db_clients,
                   out |-> send_auth_response(outbound, id, FALSE, "Invalid code").out]
        a == authenticate_client(clients, id)
        found == get_client_by_code(db_clients, code)
    IN  IF has_store
        THEN IF found # <<>>
             THEN IF server_id # NoServer /\ found[1].server_id # server_id
                  THEN reject
                  ELSE IF ~a.ok
                       THEN same
                       ELSE [reg |-> a.reg,
                             db |-> update_client_status(db_clients, found[1].id,
                                                         "connected", now),
                             out |-> send_auth_response(outbound, id, TRUE,
                                                        "Authenticated").out]
             ELSE reject
        ELSE IF ~a.ok
             THEN same
             ELSE [reg |-> a.reg,
                   db |-> db_clients,
                   out |-> send_auth_response(outbound, id, TRUE, "Authenticated").out]

\* MessageBroker::handle_auth: the registry, clients table and outbound queues
\* after the handler.
handle_auth(id, code) ==
    LET same == [reg |-> clients, db |-> db_clients, out |-> outbound]
        reject == [same EXCEPT
                      !.out = send_auth_response(outbound, id, FALSE, "Invalid code").out]
        a == authenticate_client(clients, id)
        found == get_client_by_code(db_clients, code)
    IN  IF has_store
        THEN IF found # <<>>
             THEN IF server_id # NoServer /\ found[1].server_id # server_id
                  THEN reject
                  ELSE IF ~a.ok
                       THEN same
                       ELSE [reg |-> a.reg,
                             db |-> update_client_status(db_clients, found[1].id,
                                                         "connected", now),
                             out |-> send_auth_response(outbound, id, TRUE,
                                                        "Authenticated").out]
             ELSE reject
        ELSE IF ~a.ok
             THEN same
             ELSE [reg |-> a.reg,
                   db |-> db_clients,
                   out |-> send_auth_response(outbound, id, TRUE, "Authenticated").out]

\* A ClientMessage the broker loop takes off its command channel: from any
\* session accepted so far, while the loop is not stuck in a handler.
Handles(id) ==
    /\ ~hung
    /\ id \in 1..(next_client - 1)
    /\ handled < MaxCmds
    /\ handled' = handled + 1

\* ClientMessage{Auth{code, ..}}
HandleAuth(id, code) ==
    /\ Handles(id)
    /\ clients' = handle_auth(id, code).reg
    /\ db_clients' = handle_auth(id, code).db
    /\ outbound' = handle_auth(id, code).out
    /\ UNCHANGED qvars
    /\ UNCHANGED <<xvars, has_store, server_id, rx_open, next_client>>

\* ClientMessage{Send{content}}: MessageBroker::handle_send.  With the push
\* spinning, the handler never returns and the loop takes no further command.
HandleSend(id, content) ==
    LET p == push(messages, next_id, id, content, now)
        b == broadcast(clients, outbound, p.message)
    IN  /\ Handles(id)
        /\ messages' = p.q
        /\ hung' = ~p.returns
        /\ IF p.returns
           THEN /\ pushed' = Append(pushed, p.message)
                /\ next_id' = next_id + 1
                /\ clients' = b.reg
                /\ outbound' = b.out
           ELSE UNCHANGED <<pushed, next_id, clients, outbound>>
        /\ UNCHANGED <<max_size, ttl, now, ret, cleared>>
        /\ UNCHANGED <<xvars, has_store, server_id, db_clients, rx_open, next_client>>

\* MessageBroker::handle_receive: the queue and the outbound queues after it.
handle_receive(id, since) ==
    LET r == IF since = <<>>
             THEN get_all(messages, now)
             ELSE get_since(messages, now, since[1])
    IN  [q |-> r.q,
         out |-> send_to_client(outbound, id, ReceiveResponse(r.result)).out]

\* ClientMessage{Receive{since}}
HandleReceive(id, since) ==
    /\ Handles(id)
    /\ messages' = handle_receive(id, since).q
    /\ outbound' = handle_receive(id, since).out
    /\ UNCHANGED <<max_size, ttl, now, next_id, hung, ret, pushed, cleared>>
    /\ UNCHANGED <<xvars, has_store, server_id, db_clients, clients, rx_open, next_client>>

\* ClientMessage{Ping}
HandlePing(id) ==
    /\ Handles(id)
    /\ outbound' = send_to_client(outbound, id, Pong).out
    /\ UNCHANGED qvars
    /\ UNCHANGED <<xvars, has_store, server_id, db_clients, clients, rx_open, next_client>>

\* ClientMessage with any other ProtocolMessage: logged only.
HandleOther(id) ==
    /\ Handles(id)
    /\ UNCHANGED qvars
    /\ UNCHANGED <<xvars, has_store, server_id, db_clients, clients, outbound, rx_open,
                   next_client>>

\* ClientDisconnected{client_id}, sent once the session's stream handler returned.
HandleDisconnected(id) ==
    /\ ~hung
    /\ id \in 1..(next_client - 1)
    /\ id \notin rx_open
    /\ clients' = remove_client(clients, id)
    /\ UNCHANGED qvars
    /\ UNCHANGED <<xvars, has_store, server_id, db_clients, outbound, rx_open, next_client,
                   handled>>

\* ServerInstance::handle_connection registers a session for an accepted stream.
Accept ==
    /\ next_client <= MaxSessions
    /\ clients' = [x \in DOMAIN clients \cup {next_client} |->
                     IF x = next_client THEN [authenticated |-> FALSE] ELSE clients[x]]
    /\ rx_open' = rx_open \cup {next_client}
    /\ next_client' = next_client + 1
    /\ UNCHANGED qvars
    /\ UNCHANGED <<xvars, has_store, server_id, db_clients, outbound, handled>>

\* The session's stream handler returns (EOF or read error): its outbound
\* receiver is dropped.
CloseTransport(id) ==
    /\ id \in rx_open
    /\ rx_open' = rx_open \ {id}
    /\ UNCHANGED qvars
    /\ UNCHANGED <<xvars, has_store, server_id, db_clients, clients, outbound, next_client,
                   handled>>

\* commands.rs handle_revoke_client: look the code up, set it disconnected.
RevokeClient(code) ==
    /\ has_store
    /\ get_client_by_code(db_clients, code) # <<>>
    /\ db_clients' = update_client_status(db_clients,
                         get_client_by_code(db_clients, code)[1].id, "disconnected", now)
    /\ UNCHANGED qvars
    /\ UNCHANGED <<xvars, has_store, server_id, clients, outbound, rx_open, next_client,
                   handled>>

\* --------------------------------------------------------------------- Spec
\* MessageBroker::new, with an empty registry.
BrokerInit ==
    /\ has_store \in BOOLEAN
    /\ server_id \in {NoServer, ThisServer}
    /\ db_clients = IF has_store THEN InitialClients ELSE [c \in {} |-> c]
    /\ clients = [x \in {} |-> x]
    /\ outbound = [x \in SessionIds |-> <<>>]
    /\ rx_open = {}
    /\ next_client = 1
    /\ handled = 0

\* The broker as ServerInstance builds it: new_server with a StateManager,
\* new_broker without, both with a server_id.  Its behaviours run at one
\* instant of the clock, within the messages' ttl (SpecQueue is where time
\* passes); max_size is the cap or 0.
Init ==
    /\ QueueInit
    /\ ttl = MaxTtl
    /\ max_size \in {0, MaxSize}
    /\ BrokerInit
    /\ server_id = ThisServer
    /\ XInit

\* Receive{since}: None, or Some(t) with t after the clock's instant.
Sinces == {<<>>, <<now + 1>>}

Next ==
    \/ Accept
    \/ \E id \in SessionIds : CloseTransport(id)
    \/ \E id \in SessionIds : HandleDisconnected(id)
    \/ \E id \in SessionIds, code \in AuthCodes : HandleAuth(id, code)
    \/ \E id \in SessionIds, content \in Contents : HandleSend(id, content)
    \/ \E id \in SessionIds, since \in Sinces : HandleReceive(id, since)
    \/ \E id \in SessionIds : HandlePing(id)
    \/ \E id \in SessionIds : HandleOther(id)

Spec == Init /\ [][Next]_vars

\* --------------------------------------------------------------- SpecRevoke
\* The broker of a persistent server, with an operator running revoke-client
\* against the same StateManager.
InitRevoke == Init /\ has_store

NextRevoke ==
    \/ Next
    \/ \E code \in Codes : RevokeClient(code)

SpecRevoke == InitRevoke /\ [][NextRevoke]_vars

\* ----------------------------------------------------------------- SpecLive
\* The broker inside a ServerInstance, whose queue cap is positive (1000 for a
\* server, 10 for an ephemeral broker).  The broker loop takes every command
\* sent to it: handle_connection sends ClientDisconnected as soon as the stream
\* handler returns, and the loop, which is never stuck in a handler here,
\* reaches it.  Receive, Ping and the unexpected messages neither read nor
\* write the registry or the channels' ends and are left to Spec.
InitLive == Init /\ max_size = MaxSize

NextLive ==
    \/ Accept
    \/ \E id \in SessionIds : CloseTransport(id)
    \/ \E id \in SessionIds : HandleDisconnected(id)
    \/ \E id \in SessionIds, code \in AuthCodes : HandleAuth(id, code)
    \/ \E id \in SessionIds, content \in Contents : HandleSend(id, content)

Fairness == \A id \in SessionIds : WF_vars(HandleDisconnected(id))

SpecLive == InitLive /\ [][NextLive]_vars /\ Fairness

\* --------------------------------------------------------------- SpecStream
\* One session's stream: handle_client_stream's read loop, the forwarder task
\* of handle_connection, and the command channel of the broker.
\* A line is a sequence of pieces: " " is whitespace, "P" the JSON text of
\* Ping, "S" the JSON text of Send{content}, "?" text that is no JSON value.
Pieces == {" ", "P", "S", "?"}
MaxLine == 2          \* pieces in one line
MaxLines == 3         \* lines the reader reads in one behaviour
Lines == UNION {[1..n -> Pieces] : n \in 0..MaxLine}

\* str::trim
RECURSIVE trim_start(_)
trim_start(l) == IF l # <<>> /\ Head(l) = " " THEN trim_start(Tail(l)) ELSE l
RECURSIVE trim_end(_)
trim_end(l) ==
    IF l # <<>> /\ l[Len(l)] = " " THEN trim_end(SubSeq(l, 1, Len(l) - 1)) ELSE l
trim(l) == trim_end(trim_start(l))

Ping == [type |-> "ping"]
Send(content) == [type |-> "send", content |-> content]
Error(message) == [type |-> "error", message |-> message]

\* ProtocolMessage::from_bytes: serde_json::from_slice accepts exactly one
\* JSON value of the enum, with whitespace around it and nothing else.
from_bytes(bytes) ==
    LET t == trim(bytes)
    IN  IF t = <<"P">> THEN [ok |-> TRUE, msg |-> Ping]
        ELSE IF t = <<"S">> THEN [ok |-> TRUE, msg |-> Send("x")]
        ELSE [ok |-> FALSE, msg |-> Error("Invalid message format")]

\* An unbounded channel's send: fails once the receiver has been dropped.
chan_send(q, open, msg) ==
    IF open THEN [ok |-> TRUE, q |-> Append(q, msg)] ELSE [ok |-> FALSE, q |-> q]

read_line_breaks_on_error(line, ctx, btx) ==
    LET trimmed == trim(line)
        parsed == from_bytes(trimmed)
        fwd == chan_send(btx, incoming_rx_open, parsed.msg)
    IN  IF trimmed = <<>>
        THEN [did |-> "skip", msg |-> <<>>, reading |-> TRUE, ctx |-> ctx, btx |-> btx]
        ELSE IF parsed.ok
        THEN [did |-> IF fwd.ok THEN "forward" ELSE "break", msg |-> <<parsed.msg>>,
              reading |-> fwd.ok, ctx |-> ctx, btx |-> fwd.q]
        ELSE [did |-> "error", msg |-> <<>>, reading |-> FALSE,
              ctx |-> chan_send(ctx, client_rx_open, parsed.msg).q, btx |-> btx]

\* One turn of the read loop on a line read_line returned: what it did, whether
\* the loop goes on, and the two channels after it.
read_line(line, ctx, btx) ==
    LET trimmed == trim(line)
        parsed == from_bytes(trimmed)
        fwd == chan_send(btx, incoming_rx_open, parsed.msg)
    IN  IF trimmed = <<>>
        THEN [did |-> "skip", msg |-> <<>>, reading |-> TRUE, ctx |-> ctx, btx |-> btx]
        ELSE IF parsed.ok
        THEN [did |-> IF fwd.ok THEN "forward" ELSE "break", msg |-> <<parsed.msg>>,
              reading |-> fwd.ok, ctx |-> ctx, btx |-> fwd.q]
        ELSE [did |-> "error", msg |-> <<>>, reading |-> TRUE,
              ctx |-> chan_send(ctx, client_rx_open, parsed.msg).q, btx |-> btx]

ClientDisconnected == [cmd |-> "client_disconnected"]
ClientMessage(msg) == [cmd |-> "client_message", message |-> msg]

\* handle_connection once handle_client_stream has returned: the disconnect
\* notification, whose failure is ignored.
notify_disconnect(cq) == chan_send(cq, broker_rx_open, ClientDisconnected).q

\* handle_client_stream up to its read loop: the initial Ping on client_tx,
\* whose failure returns an error to handle_connection.
StreamStart ==
    /\ rd_state = "start"
    /\ LET sent == chan_send(client_tx, client_rx_open, Ping)
       IN  /\ client_tx' = sent.q
           /\ rd_state' = IF sent.ok THEN "reading" ELSE "err"
           /\ commands' = IF sent.ok THEN commands ELSE notify_disconnect(commands)
    /\ UNCHANGED <<rd_log, client_rx_open, broker_tx, incoming_rx_open, broker_rx_open>>
    /\ UNCHANGED non_svars

\* read_line returned Ok(n), n > 0.
ReadLine(line) ==
    /\ rd_state = "reading"
    /\ Len(rd_log) < MaxLines
    /\ LET r == read_line(line, client_tx, broker_tx)
       IN  /\ rd_log' = Append(rd_log, [did |-> r.did, msg |-> r.msg])
           /\ client_tx' = r.ctx
           /\ broker_tx' = r.btx
           /\ rd_state' = IF r.reading THEN "reading" ELSE "ok"
           /\ commands' = IF r.reading THEN commands ELSE notify_disconnect(commands)
    /\ UNCHANGED <<client_rx_open, incoming_rx_open, broker_rx_open>>
    /\ UNCHANGED non_svars

\* read_line returned Ok(0): the loop breaks, the handler returns Ok(()).
ReadEof ==
    /\ rd_state = "reading"
    /\ rd_state' = "ok"
    /\ rd_log' = Append(rd_log, [did |-> "eof", msg |-> <<>>])
    /\ commands' = notify_disconnect(commands)
    /\ UNCHANGED <<client_tx, client_rx_open, broker_tx, incoming_rx_open, broker_rx_open>>
    /\ UNCHANGED non_svars

\* read_line returned Err: logged, the loop breaks, the handler returns Ok(()).
ReadErr ==
    /\ rd_state = "reading"
    /\ rd_state' = "ok"
    /\ rd_log' = Append(rd_log, [did |-> "read_error", msg |-> <<>>])
    /\ commands' = notify_disconnect(commands)
    /\ UNCHANGED <<client_tx, client_rx_open, broker_tx, incoming_rx_open, broker_rx_open>>
    /\ UNCHANGED non_svars

\* The forwarder task takes one message off incoming_rx and sends it to the
\* broker as a ClientMessage; when that send fails it ends, dropping incoming_rx
\* and what it still held.
Forward ==
    /\ incoming_rx_open
    /\ broker_tx # <<>>
    /\ LET sent == chan_send(commands, broker_rx_open, ClientMessage(Head(broker_tx)))
       IN  /\ commands' = sent.q
           /\ incoming_rx_open' = sent.ok
           /\ broker_tx' = IF sent.ok THEN Tail(broker_tx) ELSE <<>>
    /\ UNCHANGED <<rd_state, rd_log, client_tx, client_rx_open, broker_rx_open>>
    /\ UNCHANGED non_svars

\* The forwarder task ends when incoming_rx.recv() returns None: the stream
\* handler has returned (incoming_tx dropped) and nothing is left to take.
ForwarderEnds ==
    /\ incoming_rx_open
    /\ rd_state \in {"ok", "err"}
    /\ broker_tx = <<>>
    /\ incoming_rx_open' = FALSE
    /\ UNCHANGED <<rd_state, rd_log, client_tx, client_rx_open, broker_tx, commands,
                   broker_rx_open>>
    /\ UNCHANGED non_svars

\* The broker loop ends (Shutdown): its command receiver is dropped.
BrokerStops ==
    /\ broker_rx_open
    /\ broker_rx_open' = FALSE
    /\ UNCHANGED <<rd_state, rd_log, client_tx, client_rx_open, broker_tx,
                   incoming_rx_open, commands>>
    /\ UNCHANGED non_svars

\* The holder of client_tx's receiver drops it.
DropClientRx ==
    /\ client_rx_open
    /\ client_rx_open' = FALSE
    /\ UNCHANGED <<rd_state, rd_log, client_tx, broker_tx, incoming_rx_open, commands,
                   broker_rx_open>>
    /\ UNCHANGED non_svars

\* A queue and a registry at rest, which the stream does not touch.
Rest == QueueInit /\ max_size = MaxSize /\ ttl = MaxTtl /\ NoBroker

InitStream == Rest /\ XInit

NextStream ==
    \/ StreamStart
    \/ \E line \in Lines : ReadLine(line)
    \/ ReadEof
    \/ ReadErr
    \/ Forward
    \/ ForwarderEnds
    \/ BrokerStops
    \/ DropClientRx

SpecStream == InitStream /\ [][NextStream]_vars

\* --------------------------------------------------------------- SpecWriter
\* One session's outbound path: the registry and the broker enqueue on the
\* session's outbound queue (ClientConnection.tx, whose messages client_tx
\* records), and handle_client_stream's write task writes to the transport what
\* it receives on the channel the handler creates for it.
MaxOut == 2           \* messages the registry enqueues for the session
OutMsgs == {Pong, AuthResponse(TRUE, "ok"), Error("x")}

\* UnboundedReceiver::recv on the write task's channel: a waiting message, None
\* once the channel is empty and every sender is gone, pending otherwise.
writer_recv(q, senders) ==
    IF q # <<>> THEN [got |-> "some", msg |-> <<Head(q)>>, q |-> Tail(q)]
    ELSE IF senders = 0 THEN [got |-> "none", msg |-> <<>>, q |-> q]
    ELSE [got |-> "pending", msg |-> <<>>, q |-> q]

\* The senders of the write task's channel: the handler's block binds the one
\* sender to tx and drops it at the end of the block, before the task is spawned.
writer_senders == 0

\* ClientConnection::send from the registry or the broker: one message on the
\* session's outbound queue.
SessionEnqueue(msg) ==
    /\ Len(client_tx) < MaxOut + 1
    /\ client_tx' = chan_send(client_tx, client_rx_open, msg).q
    /\ UNCHANGED <<rd_state, rd_log, client_rx_open, broker_tx, incoming_rx_open,
                   commands, broker_rx_open>>
    /\ UNCHANGED non_svars

\* One turn of the write task's loop, once the handler has spawned it: a
\* received message is written to the write half (a failed write ends the
\* task), None ends the task.
WriterStep(write_ok) ==
    /\ rd_state \in {"reading", "ok"}
    /\ write_task = "running"
    /\ LET r == writer_recv(writer_rx, writer_senders)
       IN  /\ r.got # "pending"
           /\ writer_rx' = r.q
           /\ wire' = IF r.got = "some" /\ write_ok THEN wire \o r.msg ELSE wire
           /\ write_task' = IF r.got = "some" /\ write_ok THEN "running" ELSE "ended"
    /\ UNCHANGED non_wvars

\* write_task.abort() after the read loop: the task is cancelled where it waits.
WriterAbort ==
    /\ rd_state = "ok"
    /\ write_task = "running"
    /\ write_task' = "aborted"
    /\ UNCHANGED <<writer_rx, wire>>
    /\ UNCHANGED non_wvars

InitWriter == Rest /\ XInit

NextWriter ==
    \/ StreamStart
    \/ \E line \in Lines : ReadLine(line)
    \/ ReadEof
    \/ ReadErr
    \/ Forward
    \/ ForwarderEnds
    \/ \E msg \in OutMsgs : SessionEnqueue(msg)
    \/ \E write_ok \in BOOLEAN : WriterStep(write_ok)
    \/ WriterAbort

\* The runtime schedules the handler and the tasks it spawned; the client is
\* free to send nothing and to keep its transport open.
WriterFairness ==
    /\ WF_vars(StreamStart)
    /\ WF_vars(Forward)
    /\ WF_vars(\E write_ok \in BOOLEAN : WriterStep(write_ok))

SpecWriter == InitWriter /\ [][NextWriter]_vars /\ WriterFairness

\* --------------------------------------------------------------- SpecBridge
\* The request loop of a hidden-service bridge and the handler task it spawns
\* for each request: run_eddi with handle_stream_request (the web bridge), and
\* new_server's onion listener with handle_onion_request (msgsrv).
MaxReqs == 3          \* requests taken in one behaviour
WebPort == 80
MsgPort == 9999
Ports == {WebPort, MsgPort}
ReqKinds == {"begin", "begin_dir", "other"}

\* What the handler does on inspecting the request: tear the circuit down
\* (shutdown_circuit), go on to accept it, or return without either.
inspect(b, kind, port) ==
    IF b = "web"
    THEN IF kind = "begin" /\ port = WebPort THEN "accepting" ELSE "torn_down"
    ELSE IF kind = "begin" THEN "accepting" ELSE "ignored"

loop_waits_for_all(ts) == {i \in 1..Len(ts) : ts[i].pc # "done"}

\* The handlers the request loop awaits before it polls the stream again:
\* none, each handler runs in a task of its own (tokio::spawn).
loop_waits_for(ts) == {}

Failed(ts) == {i \in 1..Len(ts) :
                 ts[i].outcome \in {"accept_failed", "connect_failed", "copy_err"}}
Busy(ts) == {i \in 1..Len(ts) : ts[i].pc # "done"}

\* stream_requests.next() yields a request: a handler task is spawned for it.
TakeRequest(kind, port) ==
    /\ listening
    /\ Len(tasks) < MaxReqs
    /\ \A i \in loop_waits_for(tasks) : tasks[i].pc = "done"
    /\ tasks' = Append(tasks, [kind |-> kind, port |-> port, pc |-> "spawned",
                               outcome |-> "none", spliced |-> FALSE,
                               after_failure |-> Failed(tasks) # {},
                               beside_busy |-> Busy(tasks) # {}])
    /\ UNCHANGED <<bridge, listening>>
    /\ UNCHANGED non_gvars

\* stream_requests.next() yields None: the loop ends.
RequestStreamEnds ==
    /\ listening
    /\ \A i \in loop_waits_for(tasks) : tasks[i].pc = "done"
    /\ listening' = FALSE
    /\ UNCHANGED <<bridge, tasks>>
    /\ UNCHANGED non_gvars

\* The handler matches on stream_request.request().
Inspect(i) ==
    /\ i \in 1..Len(tasks)
    /\ tasks[i].pc = "spawned"
    /\ LET to == inspect(bridge, tasks[i].kind, tasks[i].port)
       IN  tasks' = [tasks EXCEPT ![i].pc = IF to = "accepting" THEN to ELSE "done",
                                  ![i].outcome = IF to = "accepting" THEN "none" ELSE to]
    /\ UNCHANGED <<bridge, listening>>
    /\ UNCHANGED non_gvars

\* stream_request.accept(Connected::new_empty()).await
AcceptStream(i, ok) ==
    /\ i \in 1..Len(tasks)
    /\ tasks[i].pc = "accepting"
    /\ tasks' = [tasks EXCEPT ![i].pc = IF ok THEN "connecting" ELSE "done",
                              ![i].outcome = IF ok THEN "none" ELSE "accept_failed"]
    /\ UNCHANGED <<bridge, listening>>
    /\ UNCHANGED non_gvars

\* UnixStream::connect(socket_path).await, then copy_bidirectional starts.
ConnectUds(i, ok) ==
    /\ i \in 1..Len(tasks)
    /\ tasks[i].pc = "connecting"
    /\ tasks' = [tasks EXCEPT ![i].pc = IF ok THEN "copying" ELSE "done",
                              ![i].outcome = IF ok THEN "none" ELSE "connect_failed",
                              ![i].spliced = ok]
    /\ UNCHANGED <<bridge, listening>>
    /\ UNCHANGED non_gvars

\* copy_bidirectional returns, Ok or Err: logged, the handler returns Ok(()).
CopyReturns(i, ok) ==
    /\ i \in 1..Len(tasks)
    /\ tasks[i].pc = "copying"
    /\ tasks' = [tasks EXCEPT ![i].pc = "done",
                              ![i].outcome = IF ok THEN "copy_ok" ELSE "copy_err"]
    /\ UNCHANGED <<bridge, listening>>
    /\ UNCHANGED non_gvars

InitBridge == Rest /\ StreamInit /\ WriterInit /\ LoopInit /\ ConnectInit /\ BridgeInit /\ SpliceInit /\ YInit

NextBridge ==
    \/ \E kind \in ReqKinds, port \in Ports : TakeRequest(kind, port)
    \/ RequestStreamEnds
    \/ \E i \in 1..MaxReqs : Inspect(i)
    \/ \E i \in 1..MaxReqs, ok \in BOOLEAN : AcceptStream(i, ok)
    \/ \E i \in 1..MaxReqs, ok \in BOOLEAN : ConnectUds(i, ok)
    \/ \E i \in 1..MaxReqs, ok \in BOOLEAN : CopyReturns(i, ok)

SpecBridge == InitBridge /\ [][NextBridge]_vars

\* --------------------------------------------------------------- SpecSplice
\* One accepted request being spliced: tokio::io::copy_bidirectional between
\* the overlay stream and the UDS stream, as both bridges call it.  Each
\* direction reads what its source has written into a buffer and writes the
\* buffer to its destination; at the source's EOF it flushes and shuts the
\* destination's write side down; an I/O error on either stream ends the call.
MaxBytes == 2         \* bytes each side writes in one behaviour
Bytes == {"a", "b"}

copy_write_from_back(b, out, k) ==
    [buf |-> SubSeq(b, 1, Len(b) - k), out |-> out \o SubSeq(b, Len(b) - k + 1, Len(b))]

\* The copy takes k bytes from the source, behind what its buffer holds.
copy_read(p, b, k) == [pending |-> SubSeq(p, k + 1, Len(p)), buf |-> b \o SubSeq(p, 1, k)]

\* The copy writes the first k bytes of its buffer to the destination.
copy_write(b, out, k) ==
    [buf |-> SubSeq(b, k + 1, Len(b)), out |-> out \o SubSeq(b, 1, k)]

\* The source side of a direction writes one byte.
PeerWrite(d, byte) ==
    /\ ~src_closed[d]
    /\ Len(written[d]) < MaxBytes
    /\ written' = [written EXCEPT ![d] = Append(@, byte)]
    /\ pending' = [pending EXCEPT ![d] = Append(@, byte)]
    /\ UNCHANGED <<buf, delivered, src_closed, dir_done, copy_state>>
    /\ UNCHANGED non_cvars

\* The source side of a direction closes its write side.
PeerClose(d) ==
    /\ ~src_closed[d]
    /\ src_closed' = [src_closed EXCEPT ![d] = TRUE]
    /\ UNCHANGED <<written, pending, buf, delivered, dir_done, copy_state>>
    /\ UNCHANGED non_cvars

CopyRead(d, k) ==
    /\ copy_state = "running" /\ ~dir_done[d]
    /\ k \in 1..Len(pending[d])
    /\ pending' = [pending EXCEPT ![d] = copy_read(pending[d], buf[d], k).pending]
    /\ buf' = [buf EXCEPT ![d] = copy_read(pending[d], buf[d], k).buf]
    /\ UNCHANGED <<written, delivered, src_closed, dir_done, copy_state>>
    /\ UNCHANGED non_cvars

CopyWrite(d, k) ==
    /\ copy_state = "running" /\ ~dir_done[d]
    /\ k \in 1..Len(buf[d])
    /\ buf' = [buf EXCEPT ![d] = copy_write(buf[d], delivered[d], k).buf]
    /\ delivered' = [delivered EXCEPT ![d] = copy_write(buf[d], delivered[d], k).out]
    /\ UNCHANGED <<written, pending, src_closed, dir_done, copy_state>>
    /\ UNCHANGED non_cvars

\* A read returns 0 with the buffer flushed: the direction is finished, and the
\* call returns Ok once both are.
CopyEof(d) ==
    /\ copy_state = "running" /\ ~dir_done[d]
    /\ src_closed[d] /\ pending[d] = <<>> /\ buf[d] = <<>>
    /\ dir_done' = [dir_done EXCEPT ![d] = TRUE]
    /\ copy_state' = IF \A e \in Dirs \ {d} : dir_done[e] THEN "ok" ELSE "running"
    /\ UNCHANGED <<written, pending, buf, delivered, src_closed>>
    /\ UNCHANGED non_cvars

\* A read or a write fails: the call returns Err, which the handler logs.
CopyError ==
    /\ copy_state = "running"
    /\ copy_state' = "err"
    /\ UNCHANGED <<written, pending, buf, delivered, src_closed, dir_done>>
    /\ UNCHANGED non_cvars

InitSplice == Rest /\ XInit

NextSplice ==
    \/ \E d \in Dirs, byte \in Bytes : PeerWrite(d, byte)
    \/ \E d \in Dirs : PeerClose(d)
    \/ \E d \in Dirs, k \in 1..MaxBytes : CopyRead(d, k)
    \/ \E d \in Dirs, k \in 1..MaxBytes : CopyWrite(d, k)
    \/ \E d \in Dirs : CopyEof(d)
    \/ CopyError

SpecSplice == InitSplice /\ [][NextSplice]_vars

\* ----------------------------------------------------------- SpecIdentifier
\* handshake.rs: generate_broker_identifier hashes the bytes of the namespace,
\* the eight little-endian bytes of the timestamp and the bytes of the code,
\* one after the other.  Strings are sequences of bytes; 0 and 97 ("a") are
\* the bytes used here, both one-byte UTF-8 characters.
MaxStr == 2           \* bytes in a namespace or a code
MaxIdents == 2        \* calls of generate_broker_identifier in one behaviour
StrBytes == {0, 97}
Strs == UNION {[1..n -> StrBytes] : n \in 0..MaxStr}
IdentTimes == {0, 97, 24832}

\* u64::to_le_bytes: the eight bytes of n, least significant first.
RECURSIVE byte_at(_, _)
byte_at(n, i) == IF i = 1 THEN n % 256 ELSE byte_at(n \div 256, i - 1)
to_le_bytes(n) == [i \in 1..8 |-> byte_at(n, i)]

\* Sha256 of the bytes fed to the hasher, first 16 bytes, hex-encoded: taken
\* as injective, a digest stands for the bytes it was computed from.
Sha256_hex16(bytes) == [sha256_of |-> bytes]

generate_broker_identifier(namespace, timestamp, code) ==
    Sha256_hex16(namespace \o to_le_bytes(timestamp) \o code)

\* A call of the public function with any strings and any timestamp.
GenerateIdentifier(namespace, timestamp, code) ==
    /\ Len(idents) < MaxIdents
    /\ idents' = Append(idents, [namespace |-> namespace, timestamp |-> timestamp,
                                 code |-> code,
                                 id |-> generate_broker_identifier(namespace, timestamp, code)])
    /\ UNCHANGED <<broker_hs, client_ids>>
    /\ UNCHANGED non_hvars

InitIdentifier == Rest /\ XInit

NextIdentifier ==
    \E namespace \in Strs, timestamp \in IdentTimes, code \in Strs :
        GenerateIdentifier(namespace, timestamp, code)

SpecIdentifier == InitIdentifier /\ [][NextIdentifier]_vars

\* ---------------------------------------------------------------- SpecWindow
\* handshake.rs: the broker's identifier is made from the minute bucket of its
\* creation time; the client tries the buckets of a window around its own time.
MaxTime == 130        \* the latest clock reading, in seconds
MaxWindow == 1        \* the widest window, in minutes
INTERVAL_SECONDS == 60
HsNamespaces == {<<97>>}
HsCodes == {<<97>>, <<0>>}

\* A cast to u64: wraps around.  The word is scaled down to 20 bits.
as_u64(x) == x % (2 ^ 20)

\* round_timestamp
round_timestamp(timestamp, interval_seconds) ==
    (timestamp \div interval_seconds) * interval_seconds

generate_time_window_no_center(t, window_minutes) ==
    LET rounded_now == round_timestamp(t, INTERVAL_SECONDS)
        window_seconds == as_u64(window_minutes * 60)
        num_intervals == (window_seconds \div INTERVAL_SECONDS) * 2
    IN  [i \in 1..num_intervals |->
            round_timestamp(
                as_u64(rounded_now + ((i - 1) - (num_intervals \div 2)) * INTERVAL_SECONDS),
                INTERVAL_SECONDS)]

\* generate_time_window, with current_timestamp() = t
generate_time_window(t, window_minutes) ==
    LET rounded_now == round_timestamp(t, INTERVAL_SECONDS)
        window_seconds == as_u64(window_minutes * 60)
        num_intervals == (window_seconds \div INTERVAL_SECONDS) * 2 + 1
    IN  [i \in 1..num_intervals |->
            round_timestamp(
                as_u64(rounded_now + ((i - 1) - (num_intervals \div 2)) * INTERVAL_SECONDS),
                INTERVAL_SECONDS)]

\* BrokerHandshake::new, with current_timestamp() = t
BrokerHandshake_new(namespace, code, t) ==
    [namespace |-> namespace, code |-> code, timestamp |-> round_timestamp(t, 60)]

\* BrokerHandshake::identifier
identifier(h) == generate_broker_identifier(h.namespace, h.timestamp, h.code)

\* ClientHandshake::possible_identifiers, with current_timestamp() = t
possible_identifiers(namespace, code, t, time_window_minutes) ==
    LET timestamps == generate_time_window(t, time_window_minutes)
    IN  [i \in 1..Len(timestamps) |->
            <<timestamps[i], generate_broker_identifier(namespace, timestamps[i], code)>>]

\* A broker is created at time t.
NewBrokerHandshake(namespace, code, t) ==
    /\ broker_hs = <<>>
    /\ broker_hs' = <<[hs |-> BrokerHandshake_new(namespace, code, t), at |-> t]>>
    /\ UNCHANGED <<idents, client_ids>>
    /\ UNCHANGED non_hvars

\* A client asks for the identifiers to try at time t.
PossibleIdentifiers(namespace, code, t, w) ==
    /\ client_ids = <<>>
    /\ client_ids' = <<[namespace |-> namespace, code |-> code, at |-> t, window |-> w,
                         ids |-> possible_identifiers(namespace, code, t, w)]>>
    /\ UNCHANGED <<idents, broker_hs>>
    /\ UNCHANGED non_hvars

InitWindow == Rest /\ XInit

NextWindow ==
    \/ \E ns \in HsNamespaces, code \in HsCodes, t \in 0..MaxTime :
          NewBrokerHandshake(ns, code, t)
    \/ \E ns \in HsNamespaces, code \in HsCodes, t \in 0..MaxTime, w \in 0..MaxWindow :
          PossibleIdentifiers(ns, code, t, w)

SpecWindow == InitWindow /\ [][NextWindow]_vars

\* ----------------------------------------------------------------- SpecToken
\* Access tokens: BrokerHandshake::create_introduction issues them with an
\* expiry, FortressBroker keeps the set of valid ones.  The clock is read in
\* seconds and observed one second before and at each hour boundary.
MaxTokens == 2        \* introductions issued in one behaviour
MaxTtlHours == 1      \* largest token_ttl_hours passed to create_introduction
MaxTokenHours == 2    \* the clock advances from 0 up to this many hours
SECS_PER_HOUR == 3600

TokenIds == 1..MaxTokens
TokenSteps == {1, SECS_PER_HOUR - 1}

\* BrokerHandshake::create_introduction, with the token drawn by
\* generate_access_token and the clock reading t.
create_introduction(fortress_address, access_token, token_ttl_hours, t) ==
    [fortress_address |-> fortress_address,
     access_token |-> access_token,
     expires_at |-> t + token_ttl_hours * SECS_PER_HOUR]

\* FortressBroker::add_token
add_token(tokens, token) == tokens \cup {token}

\* FortressBroker::revoke_token
revoke_token(tokens, token) == tokens \ {token}

\* FortressBroker::validate_token
validate_token(tokens, token) == token \in tokens

\* The broker issues an introduction to a client that presented the code.
CreateIntroduction(token_ttl_hours) ==
    /\ Len(intros) < MaxTokens
    /\ intros' = Append(intros,
                    [intro |-> create_introduction("fortress.onion", next_token,
                                                   token_ttl_hours, token_now),
                     issued_at |-> token_now,
                     token_ttl |-> token_ttl_hours * SECS_PER_HOUR])
    /\ next_token' = next_token + 1
    /\ UNCHANGED <<token_now, valid_tokens, token_use>>
    /\ UNCHANGED non_tvars

\* The server is told of an issued token.
AddToken(i) ==
    /\ i \in 1..Len(intros)
    /\ valid_tokens' = add_token(valid_tokens, intros[i].intro.access_token)
    /\ UNCHANGED <<token_now, next_token, intros, token_use>>
    /\ UNCHANGED non_tvars

RevokeToken(token) ==
    /\ token \in valid_tokens
    /\ valid_tokens' = revoke_token(valid_tokens, token)
    /\ UNCHANGED <<token_now, next_token, intros, token_use>>
    /\ UNCHANGED non_tvars

\* A client presents a token to the server.
ValidateToken(token) ==
    /\ token_use' = <<[token |-> token, at |-> token_now,
                       result |-> validate_token(valid_tokens, token)]>>
    /\ UNCHANGED <<token_now, next_token, intros, valid_tokens>>
    /\ UNCHANGED non_tvars

TickToken(d) ==
    /\ token_now + d <= MaxTokenHours * SECS_PER_HOUR
    /\ (token_now + d) % SECS_PER_HOUR \in {0, SECS_PER_HOUR - 1}
    /\ token_now' = token_now + d
    /\ UNCHANGED <<next_token, intros, valid_tokens, token_use>>
    /\ UNCHANGED non_tvars

InitToken == Rest /\ XInit

NextToken ==
    \/ \E h \in 0..MaxTtlHours : CreateIntroduction(h)
    \/ \E i \in TokenIds : AddToken(i)
    \/ \E token \in TokenIds : RevokeToken(token)
    \/ \E token \in TokenIds : ValidateToken(token)
    \/ \E d \in TokenSteps : TickToken(d)

SpecToken == InitToken /\ [][NextToken]_vars

\* -------------------------------------------------------------- SpecListener
\* A ServerInstance on its Unix socket: the listener task (run_listener), the
\* broker task (MessageBroker::run), new_broker's timeout task, the forwarder
\* task of each connection, the owner calling shutdown() or dropping the
\* instance, and clients that connect, write lines and close.
MaxConns == 2         \* connections made to the socket in one behaviour
MaxSignals == 2       \* () messages waiting on the shutdown channel
MaxCmdQueue == 2      \* client commands waiting in the broker's channel

ConnIds == 1..MaxConns

\* The listener task has not finished: it holds shutdown_rx and its handle.
ListenerAlive == lis_pc \in {"start", "select", "session"}

\* Some sender of the shutdown channel is alive: the instance's shutdown_tx
\* or the clone the timeout task holds until it has fired.
ShutdownSenders == inst # "dropped" \/ timer = "armed"

\* Some BrokerHandle is alive: the instance's, the listener's, a forwarder's.
HandleHolders ==
    \/ inst # "dropped"
    \/ ListenerAlive
    \/ \E i \in 1..Len(conns) : conns[i].fwd

\* One turn of MessageBroker::run's loop on a non-empty channel: Shutdown
\* breaks (the receiver is dropped with the broker), anything else is handled.
loop_turn(cmds) ==
    IF Head(cmds) = "Shutdown"
    THEN [running |-> FALSE, cmds |-> <<>>]
    ELSE [running |-> TRUE, cmds |-> Tail(cmds)]

\* BrokerHandle::send_command: fails once the broker loop has finished.
send_command(cmds, running, cmd) ==
    IF running THEN [ok |-> TRUE, cmds |-> Append(cmds, cmd)]
    ELSE [ok |-> FALSE, cmds |-> cmds]

\* run_listener up to its loop: remove_file, whose failure is ignored, then
\* bind, which fails on a path that still exists or cannot be created.
ListenerBind(removed, ok) ==
    /\ lis_pc = "start"
    /\ LET stale == socket_file /\ ~removed
       IN  /\ ok => ~stale
           /\ socket_file' = (ok \/ stale)
           /\ lis_pc' = IF ok THEN "select" ELSE "failed"
           /\ shutdown_q' = IF ok THEN shutdown_q ELSE 0
    /\ UNCHANGED <<lkind, inst, shutdown_ret, timer, backlog, conns,
                   loop_running, loop_cmds>>
    /\ UNCHANGED non_lvars

\* A client connects to the socket; the kernel queues the connection.
Connect ==
    /\ socket_file
    /\ lis_pc \in {"select", "session"}
    /\ backlog + Len(conns) < MaxConns
    /\ backlog' = backlog + 1
    /\ UNCHANGED <<lkind, inst, shutdown_ret, timer, shutdown_q, lis_pc,
                   socket_file, conns, loop_running, loop_cmds>>
    /\ UNCHANGED non_lvars

\* select! takes the accept branch: handle_connection is awaited in the loop
\* body, up to its call of handle_client_stream.
ListenerAccept ==
    /\ lis_pc = "select"
    /\ backlog > 0
    /\ backlog' = backlog - 1
    /\ conns' = Append(conns, [active |-> TRUE, client_open |-> TRUE,
                               fwd |-> TRUE, incoming |-> 0])
    /\ lis_pc' = "session"
    /\ UNCHANGED <<lkind, inst, shutdown_ret, timer, shutdown_q, socket_file,
                   loop_running, loop_cmds>>
    /\ UNCHANGED non_lvars

\* select! takes the shutdown branch: recv returned a message, or None when
\* every sender is gone; the loop breaks and the socket file is removed.
ListenerShutdown ==
    /\ lis_pc = "select"
    /\ shutdown_q > 0 \/ ~ShutdownSenders
    /\ lis_pc' = "done"
    /\ socket_file' = FALSE
    /\ shutdown_q' = 0
    /\ UNCHANGED <<lkind, inst, shutdown_ret, timer, backlog, conns,
                   loop_running, loop_cmds>>
    /\ UNCHANGED non_lvars

\* new_broker's timeout task wakes and sends on its clone of shutdown_tx.
TimeoutFires ==
    /\ timer = "armed"
    /\ timer' = "fired"
    /\ shutdown_q' = IF ListenerAlive THEN shutdown_q + 1 ELSE shutdown_q
    /\ UNCHANGED <<lkind, inst, shutdown_ret, lis_pc, socket_file, backlog,
                   conns, loop_running, loop_cmds>>
    /\ UNCHANGED non_lvars

\* ServerInstance::shutdown
InstanceShutdown ==
    /\ inst # "dropped"
    /\ shutdown_q < MaxSignals
    /\ Len(loop_cmds) <= MaxCmdQueue
    /\ inst' = "shutdown"
    /\ LET sent == send_command(loop_cmds, loop_running, "Shutdown")
       IN  /\ loop_cmds' = sent.cmds
           /\ shutdown_q' = IF sent.ok /\ ListenerAlive
                            THEN shutdown_q + 1 ELSE shutdown_q
           /\ shutdown_ret' = IF sent.ok /\ ListenerAlive THEN "ok" ELSE "err"
    /\ UNCHANGED <<lkind, timer, lis_pc, socket_file, backlog, conns,
                   loop_running>>
    /\ UNCHANGED non_lvars

\* The owner drops the ServerInstance: its handle and shutdown_tx go.
InstanceDrop ==
    /\ inst # "dropped"
    /\ inst' = "dropped"
    /\ UNCHANGED <<lkind, shutdown_ret, timer, shutdown_q, lis_pc, socket_file,
                   backlog, conns, loop_running, loop_cmds>>
    /\ UNCHANGED non_lvars

\* handle_client_stream has returned: handle_connection notifies the broker
\* and returns to run_listener's loop.
session_return(i) ==
    /\ conns' = [conns EXCEPT ![i].active = FALSE]
    /\ loop_cmds' = send_command(loop_cmds, loop_running, "ClientDisconnected").cmds
    /\ lis_pc' = "select"

\* The client writes a well-formed line: the read loop sends it to the
\* forwarder, and breaks when the forwarder has dropped its receiver.
SessionLine(i) ==
    /\ i \in 1..Len(conns)
    /\ conns[i].active /\ conns[i].client_open
    /\ IF conns[i].fwd
       THEN /\ conns[i].incoming = 0
            /\ Len(loop_cmds) < MaxCmdQueue
            /\ conns' = [conns EXCEPT ![i].incoming = 1]
            /\ UNCHANGED <<loop_cmds, lis_pc>>
       ELSE session_return(i)
    /\ UNCHANGED <<lkind, inst, shutdown_ret, timer, shutdown_q, socket_file,
                   backlog, loop_running>>
    /\ UNCHANGED non_lvars

\* The client closes its end of the connection.
SessionClose(i) ==
    /\ i \in 1..Len(conns)
    /\ conns[i].active /\ conns[i].client_open
    /\ conns' = [conns EXCEPT ![i].client_open = FALSE]
    /\ UNCHANGED <<lkind, inst, shutdown_ret, timer, shutdown_q, lis_pc,
                   socket_file, backlog, loop_running, loop_cmds>>
    /\ UNCHANGED non_lvars

\* The read loop reads EOF.
SessionEof(i) ==
    /\ i \in 1..Len(conns)
    /\ conns[i].active /\ ~conns[i].client_open
    /\ session_return(i)
    /\ UNCHANGED <<lkind, inst, shutdown_ret, timer, shutdown_q, socket_file,
                   backlog, loop_running>>
    /\ UNCHANGED non_lvars

\* The forwarder task passes a message on, and breaks when the send fails.
SessionForward(i) ==
    /\ i \in 1..Len(conns)
    /\ conns[i].fwd /\ conns[i].incoming > 0
    /\ LET sent == send_command(loop_cmds, loop_running, "ClientMessage")
       IN  /\ loop_cmds' = sent.cmds
           /\ conns' = [conns EXCEPT ![i].incoming = 0, ![i].fwd = sent.ok]
    /\ UNCHANGED <<lkind, inst, shutdown_ret, timer, shutdown_q, lis_pc,
                   socket_file, backlog, loop_running>>
    /\ UNCHANGED non_lvars

\* The forwarder's recv returns None once incoming_tx is dropped.
SessionForwarderEnds(i) ==
    /\ i \in 1..Len(conns)
    /\ conns[i].fwd /\ conns[i].incoming = 0 /\ ~conns[i].active
    /\ conns' = [conns EXCEPT ![i].fwd = FALSE]
    /\ UNCHANGED <<lkind, inst, shutdown_ret, timer, shutdown_q, lis_pc,
                   socket_file, backlog, loop_running, loop_cmds>>
    /\ UNCHANGED non_lvars

\* MessageBroker::run receives a command.
LoopStep ==
    /\ loop_running
    /\ loop_cmds # <<>>
    /\ loop_running' = loop_turn(loop_cmds).running
    /\ loop_cmds' = loop_turn(loop_cmds).cmds
    /\ UNCHANGED <<lkind, inst, shutdown_ret, timer, shutdown_q, lis_pc,
                   socket_file, backlog, conns>>
    /\ UNCHANGED non_lvars

\* MessageBroker::run's recv returns None: every handle has been dropped.
LoopEnds ==
    /\ loop_running
    /\ loop_cmds = <<>>
    /\ ~HandleHolders
    /\ loop_running' = FALSE
    /\ UNCHANGED <<lkind, inst, shutdown_ret, timer, shutdown_q, lis_pc,
                   socket_file, backlog, conns, loop_cmds>>
    /\ UNCHANGED non_lvars

InitListener ==
    /\ Rest
    /\ StreamInit /\ WriterInit /\ LoopInit /\ ConnectInit /\ BridgeInit /\ bridge = "web" /\ SpliceInit
    /\ HandshakeInit /\ TokenInit
    /\ StoreInit /\ foreign_keys
    /\ PInit
    /\ ListenerInit

NextListener ==
    \/ \E removed, ok \in BOOLEAN : ListenerBind(removed, ok)
    \/ Connect
    \/ ListenerAccept
    \/ ListenerShutdown
    \/ TimeoutFires
    \/ InstanceShutdown
    \/ InstanceDrop
    \/ \E i \in ConnIds : SessionLine(i)
    \/ \E i \in ConnIds : SessionClose(i)
    \/ \E i \in ConnIds : SessionEof(i)
    \/ \E i \in ConnIds : SessionForward(i)
    \/ \E i \in ConnIds : SessionForwarderEnds(i)
    \/ LoopStep
    \/ LoopEnds

\* The tasks are scheduled by the runtime and the timer elapses; select!
\* polls its ready branches in random order, so a shutdown that stays ready
\* whenever the loop selects is taken.  Clients and the owner are free.
ListenerFairness ==
    /\ WF_vars(\E removed, ok \in BOOLEAN : ListenerBind(removed, ok))
    /\ WF_vars(ListenerAccept)
    /\ SF_vars(ListenerShutdown)
    /\ WF_vars(TimeoutFires)
    /\ \A i \in ConnIds : WF_vars(SessionEof(i))
    /\ \A i \in ConnIds : WF_vars(SessionForward(i))
    /\ \A i \in ConnIds : WF_vars(SessionForwarderEnds(i))
    /\ WF_vars(LoopStep)
    /\ WF_vars(LoopEnds)

SpecListener == InitListener /\ [][NextListener]_vars /\ ListenerFairness

\* ---------------------------------------------------------------- SpecStore
\* The StateManager's tables and the ServerManager in front of them:
\* create_server calls that interleave, stop_server, create_client, the
\* cleanup command, and the broker of the first server answering Auth.
MaxCalls == 2         \* create_server calls made in one behaviour

ServerNames == {"n1", "n2"}
ServerIdSeq == <<ThisServer, OtherServer, "S3", "S4">>
ConnNames == {"r1"}
CallIds == 1..MaxCalls

\* ServerStatus::to_string
ServerStatus_to_string(status) ==
    CASE status = "Running" -> "running"
      [] status = "Stopped" -> "stopped"
      [] status = "Error" -> "error"

\* ServerStatus::from_string
ServerStatus_from_string(str) ==
    CASE str = "running" -> "Running"
      [] str = "stopped" -> "Stopped"
      [] str = "error" -> "Error"
      [] OTHER -> "Error"

\* A row of the servers table read back as a ServerConfig.
ServerConfig_of(row) ==
    [id |-> row.id, name |-> row.name,
     status |-> ServerStatus_from_string(row.status)]

create_server_if_absent(servers, config) ==
    IF \E r \in servers : r.id = config.id
    THEN [ok |-> FALSE, servers |-> servers]
    ELSE [ok |-> TRUE,
          servers |-> servers \cup
              {[id |-> config.id, name |-> config.name,
                status |-> ServerStatus_to_string(config.status)]}]

\* StateManager::create_server: INSERT INTO servers; id is the PRIMARY KEY
\* and name is UNIQUE, so the insert fails when either is already there.
create_server(servers, config) ==
    IF \E r \in servers : r.id = config.id \/ r.name = config.name
    THEN [ok |-> FALSE, servers |-> servers]
    ELSE [ok |-> TRUE,
          servers |-> servers \cup
              {[id |-> config.id, name |-> config.name,
                status |-> ServerStatus_to_string(config.status)]}]

\* StateManager::get_server: SELECT ... WHERE name = ?1
get_server(servers, name) ==
    IF \E r \in servers : r.name = name
    THEN <<ServerConfig_of(CHOOSE r \in servers : r.name = name)>>
    ELSE <<>>

\* StateManager::list_servers
list_servers(servers) == {ServerConfig_of(r) : r \in servers}

\* StateManager::update_server_status: UPDATE servers SET status WHERE id
update_server_status(servers, id, status) ==
    {IF r.id = id THEN [r EXCEPT !.status = ServerStatus_to_string(status)] ELSE r :
        r \in servers}

\* StateManager::delete_server: DELETE FROM servers WHERE name = ?1.  With
\* foreign keys enforced the clients rows of the deleted servers go too
\* (ON DELETE CASCADE); without, the clients table is not touched.
delete_server(servers, cl, name, fk) ==
    LET gone == {r \in servers : r.name = name}
        ids == {r.id : r \in gone}
    IN  [servers |-> servers \ gone,
         clients |-> IF fk
                     THEN [c \in {k \in DOMAIN cl : cl[k].server_id \notin ids} |-> cl[c]]
                     ELSE cl,
         gone |-> ids]

\* StateManager::create_client: INSERT INTO clients; code is UNIQUE, and with
\* foreign keys enforced server_id must be the id of a servers row.
create_client(servers, cl, fk, sid, code) ==
    IF code \in DOMAIN cl \/ (fk /\ ~\E r \in servers : r.id = sid)
    THEN [ok |-> FALSE, clients |-> cl]
    ELSE [ok |-> TRUE,
          clients |-> [c \in DOMAIN cl \cup {code} |->
              IF c = code
              THEN [id |-> IF code = "K1" THEN "u1" ELSE "u2",
                    server_id |-> sid, code |-> code,
                    status |-> "pending", connected_at |-> <<>>]
              ELSE cl[c]]]

RECURSIVE delete_each(_, _, _, _)
\* handle_cleanup's loop: delete_server for each server of the list.
delete_each(servers, cl, names, fk) ==
    IF names = {}
    THEN [servers |-> servers, clients |-> cl, gone |-> {}]
    ELSE LET n == CHOOSE x \in names : TRUE
             d == delete_server(servers, cl, n, fk)
             rest == delete_each(d.servers, d.clients, names \ {n}, fk)
         IN  [servers |-> rest.servers, clients |-> rest.clients,
              gone |-> d.gone \cup rest.gone]

handle_cleanup_any_status(servers, cl, fk, force) ==
    IF force
    THEN delete_each(servers, cl, {c.name : c \in list_servers(servers)}, fk)
    ELSE [servers |-> servers, clients |-> cl, gone |-> {}]

\* commands.rs handle_cleanup: list the servers, keep the stopped ones, and
\* with force delete each of them by name.
handle_cleanup(servers, cl, fk, force) ==
    LET stopped == {c \in list_servers(servers) : c.status = "Stopped"}
    IN  IF force /\ stopped # {}
        THEN delete_each(servers, cl, {c.name : c \in stopped}, fk)
        ELSE [servers |-> servers, clients |-> cl, gone |-> {}]

\* A caller enters ServerManager::create_server.
CreateServerCall(name) ==
    /\ Len(calls) < MaxCalls
    /\ calls' = Append(calls, [name |-> name, pc |-> "check",
                               id |-> ServerIdSeq[Len(calls) + 1]])
    /\ UNCHANGED <<foreign_keys, db_servers, db_connections, instances, deleted>>
    /\ UNCHANGED <<bvars, non_dvars>>

\* create_server's check: bail when get_server(name) finds a row.
CreateServerCheck(c) ==
    /\ c \in 1..Len(calls)
    /\ calls[c].pc = "check"
    /\ calls' = [calls EXCEPT ![c].pc =
                    IF get_server(db_servers, calls[c].name) # <<>>
                    THEN "exists" ELSE "new_server"]
    /\ UNCHANGED <<foreign_keys, db_servers, db_connections, instances, deleted>>
    /\ UNCHANGED <<bvars, non_dvars>>

\* ServerInstance::new_server: Tor is initialised when asked for, the
\* ServerConfig is saved with status Running, then the tasks are spawned.
\* Every error before the spawn returns from create_server with `?`.
NewServer(c, tor_ok) ==
    /\ c \in 1..Len(calls)
    /\ calls[c].pc = "new_server"
    /\ LET saved == create_server(db_servers,
                        [id |-> calls[c].id, name |-> calls[c].name,
                         status |-> "Running"])
       IN  IF tor_ok
           THEN /\ db_servers' = saved.servers
                /\ calls' = [calls EXCEPT ![c].pc =
                                IF saved.ok THEN "insert" ELSE "store_err"]
           ELSE /\ calls' = [calls EXCEPT ![c].pc = "tor_err"]
                /\ UNCHANGED db_servers
    /\ UNCHANGED <<foreign_keys, db_connections, instances, deleted>>
    /\ UNCHANGED <<bvars, non_dvars>>

\* create_server's end: the instance is put in the manager's map.
RegisterServer(c) ==
    /\ c \in 1..Len(calls)
    /\ calls[c].pc = "insert"
    /\ instances' = [n \in DOMAIN instances \cup {calls[c].name} |->
                        IF n = calls[c].name THEN calls[c].id ELSE instances[n]]
    /\ calls' = [calls EXCEPT ![c].pc = "ok"]
    /\ UNCHANGED <<foreign_keys, db_servers, db_connections, deleted>>
    /\ UNCHANGED <<bvars, non_dvars>>

\* ServerManager::stop_server on a name in the map: the instance is removed,
\* shut down, and when shutdown() returned Ok its row is set to Stopped.
StopServer(name, shutdown_ok) ==
    /\ name \in DOMAIN instances
    /\ instances' = [n \in DOMAIN instances \ {name} |-> instances[n]]
    /\ db_servers' = IF shutdown_ok
                     THEN update_server_status(db_servers, instances[name], "Stopped")
                     ELSE db_servers
    /\ UNCHANGED <<foreign_keys, db_connections, calls, deleted>>
    /\ UNCHANGED <<bvars, non_dvars>>

\* StateManager::create_client for a server the caller has looked up.
CreateClient(sid, code) ==
    /\ \E r \in db_servers : r.id = sid
    /\ db_clients' = create_client(db_servers, db_clients, foreign_keys, sid, code).clients
    /\ UNCHANGED <<has_store, server_id, clients, outbound, rx_open, next_client,
                   handled>>
    /\ UNCHANGED <<dvars, non_dvars>>

\* StateManager::create_connection / delete_connection
CreateConnection(name) ==
    /\ name \notin db_connections
    /\ db_connections' = db_connections \cup {name}
    /\ UNCHANGED <<foreign_keys, db_servers, instances, calls, deleted>>
    /\ UNCHANGED <<bvars, non_dvars>>

DeleteConnection(name) ==
    /\ name \in db_connections
    /\ db_connections' = db_connections \ {name}
    /\ UNCHANGED <<foreign_keys, db_servers, instances, calls, deleted>>
    /\ UNCHANGED <<bvars, non_dvars>>

\* The cleanup command.
Cleanup(force) ==
    /\ LET done == handle_cleanup(db_servers, db_clients, foreign_keys, force)
       IN  /\ db_servers' = done.servers
           /\ db_clients' = done.clients
           /\ deleted' = deleted \cup done.gone
    /\ UNCHANGED <<has_store, server_id, clients, outbound, rx_open, next_client,
                   handled>>
    /\ UNCHANGED <<foreign_keys, db_connections, instances, calls>>
    /\ UNCHANGED non_dvars

\* The first server's broker exists once its row has been saved.
BrokerUp == \E c \in 1..Len(calls) :
                calls[c].id = server_id /\ calls[c].pc \in {"insert", "ok"}

\* One client connects to that broker.
StoreAccept == BrokerUp /\ next_client = 1 /\ Accept

StoreAuth(id, code) == BrokerUp /\ HandleAuth(id, code)

\* The FortressBroker of the first server, before any session, on the store.
InitStore ==
    /\ QueueInit /\ max_size = MaxSize /\ ttl = MaxTtl
    /\ has_store = TRUE
    /\ server_id = ThisServer
    /\ db_clients = <<>>
    /\ clients = <<>>
    /\ outbound = [x \in SessionIds |-> <<>>]
    /\ rx_open = {}
    /\ next_client = 1
    /\ handled = 0
    /\ StreamInit /\ WriterInit /\ LoopInit /\ ConnectInit /\ BridgeInit /\ bridge = "web" /\ SpliceInit
    /\ HandshakeInit /\ TokenInit
    /\ ListenerInit /\ lkind = "server" /\ ~socket_file
    /\ PInit
    /\ StoreInit

NextStore ==
    \/ \E name \in ServerNames : CreateServerCall(name)
    \/ \E c \in CallIds : CreateServerCheck(c)
    \/ \E c \in CallIds, tor_ok \in BOOLEAN : NewServer(c, tor_ok)
    \/ \E c \in CallIds : RegisterServer(c)
    \/ \E name \in ServerNames, ok \in BOOLEAN : StopServer(name, ok)
    \/ \E sid \in {ThisServer, OtherServer}, code \in Codes : CreateClient(sid, code)
    \/ \E name \in ConnNames : CreateConnection(name)
    \/ \E name \in ConnNames : DeleteConnection(name)
    \/ \E force \in BOOLEAN : Cleanup(force)
    \/ StoreAccept
    \/ \E id \in SessionIds, code \in Codes : StoreAuth(id, code)

SpecStore == InitStore /\ [][NextStore]_vars

\* ---------------------------------------------------------------- SpecChild
\* The ChildProcessManager of the web bridge: spawn, wait_for_socket and Drop,
\* with a child that binds its socket and may exit on its own.
MaxSpawns == 3        \* calls of ChildProcessManager::spawn in one behaviour
MaxPolls == 3         \* polls wait_for_socket makes before its timeout

Drop_keeps_socket(c, file) == [child |-> "reaped", file |-> file]

\* impl Drop for ChildProcessManager: kill and wait, whose errors are
\* ignored, then remove the socket file when it exists.
Drop_drop(c, file) == [child |-> "reaped", file |-> FALSE]

\* ChildProcessManager::spawn: an existing socket file is removed (or spawn
\* returns the error), then the command is started (or spawn returns the
\* error).
Spawn(removed, started) ==
    /\ mgr \in {"none", "dropped"}
    /\ spawns < MaxSpawns
    /\ spawns' = spawns + 1
    /\ IF path_file /\ ~removed
       THEN /\ spawn_ret' = <<[ok |-> FALSE, existing |-> path_file]>>
            /\ mgr' = "none"
            /\ UNCHANGED <<child, path_file>>
       ELSE /\ path_file' = FALSE
            /\ spawn_ret' = <<[ok |-> started, existing |-> path_file]>>
            /\ mgr' = IF started THEN "alive" ELSE "none"
            /\ child' = IF started THEN "running" ELSE child
    /\ wait_ret' = "none"
    /\ polls' = 0
    /\ UNCHANGED non_pvars

\* The child binds its Unix socket, which creates the file.
ChildBinds ==
    /\ child = "running"
    /\ ~path_file
    /\ path_file' = TRUE
    /\ UNCHANGED <<mgr, spawn_ret, child, wait_ret, polls, spawns>>
    /\ UNCHANGED non_pvars

\* The child exits on its own, unlinking its socket or not; nobody has
\* waited for it yet.
ChildExits(unlinks) ==
    /\ child = "running"
    /\ child' = "exited"
    /\ path_file' = (path_file /\ ~unlinks)
    /\ UNCHANGED <<mgr, spawn_ret, wait_ret, polls, spawns>>
    /\ UNCHANGED non_pvars

\* Something else leaves a file at the socket path while no manager is alive.
StaleFile ==
    /\ mgr # "alive"
    /\ ~path_file
    /\ spawns < MaxSpawns
    /\ path_file' = TRUE
    /\ UNCHANGED <<mgr, spawn_ret, child, wait_ret, polls, spawns>>
    /\ UNCHANGED non_pvars

\* One turn of wait_for_socket's loop: Ok when the path exists, otherwise
\* sleep and poll again until the timeout.
WaitForSocket ==
    /\ mgr = "alive"
    /\ wait_ret \in {"none", "waiting"}
    /\ IF polls >= MaxPolls
       THEN wait_ret' = "timeout" /\ UNCHANGED polls
       ELSE IF path_file
            THEN wait_ret' = "ok" /\ UNCHANGED polls
            ELSE wait_ret' = "waiting" /\ polls' = polls + 1
    /\ UNCHANGED <<mgr, spawn_ret, child, path_file, spawns>>
    /\ UNCHANGED non_pvars

\* The manager goes out of scope while none of its methods is running.
DropManager ==
    /\ mgr = "alive"
    /\ wait_ret # "waiting"
    /\ mgr' = "dropped"
    /\ child' = Drop_drop(child, path_file).child
    /\ path_file' = Drop_drop(child, path_file).file
    /\ UNCHANGED <<spawn_ret, wait_ret, polls, spawns>>
    /\ UNCHANGED non_pvars

InitChild ==
    /\ Rest
    /\ StreamInit /\ WriterInit /\ LoopInit /\ ConnectInit /\ BridgeInit /\ bridge = "web" /\ SpliceInit
    /\ HandshakeInit /\ TokenInit
    /\ ListenerInit /\ lkind = "server" /\ ~socket_file
    /\ StoreInit /\ foreign_keys
    /\ ChildInit

NextChild ==
    \/ \E removed, started \in BOOLEAN : Spawn(removed, started)
    \/ ChildBinds
    \/ \E unlinks \in BOOLEAN : ChildExits(unlinks)
    \/ StaleFile
    \/ WaitForSocket
    \/ DropManager

SpecChild == InitChild /\ [][NextChild]_vars

\* ----------------------------------------------------------------- SpecLoop
\* MessageBroker::run with its command channel: sessions and the instance send
\* commands, the loop receives them one at a time and runs each handler to its
\* end before the next recv.  ClientManager::broadcast takes the registry's read
\* lock for its scan and, when an enqueue failed, the write lock for its
\* removals; the listener's add_client can take the lock in between.
MaxSent == 3          \* commands sent on the channel in one behaviour

Auth(code) == [type |-> "auth", code |-> code]
Receive(since) == [type |-> "receive", since |-> since]
BrokerCommand_ClientMessage(id, msg) ==
    [cmd |-> "client_message", client_id |-> id, message |-> msg]
BrokerCommand_ClientDisconnected(id) ==
    [cmd |-> "client_disconnected", client_id |-> id]
BrokerCommand_Shutdown == [cmd |-> "shutdown"]

\* The commands that can be sent: a message a session's forwarder passes on,
\* the disconnect of a session whose stream handler has returned, Shutdown.
LoopCmds ==
    {BrokerCommand_Shutdown}
        \cup {BrokerCommand_ClientDisconnected(id) :
                 id \in (1..(next_client - 1)) \ rx_open}
        \cup {BrokerCommand_ClientMessage(id, msg) :
                 id \in 1..(next_client - 1),
                 msg \in {Auth("K1"), Send("x"), Receive(<<>>), Ping}}

recv_newest(cmds) ==
    [cmd |-> cmds[Len(cmds)], rest |-> SubSeq(cmds, 1, Len(cmds) - 1)]

\* UnboundedReceiver::recv on a non-empty channel: the oldest command.
recv(cmds) == [cmd |-> Head(cmds), rest |-> Tail(cmds)]

remove_failed_and_unauthenticated(reg, failed) ==
    [x \in {y \in DOMAIN reg \ failed : reg[y].authenticated} |-> reg[x]]

\* ClientManager::broadcast under the write lock: remove the failed ids.
remove_failed(reg, failed) == [x \in DOMAIN reg \ failed |-> reg[x]]

\* What a handler leaves when it changes nothing and calls no broadcast.
handler_same ==
    [q |-> messages, hung |-> FALSE, pushed |-> pushed, next_id |-> next_id,
     reg |-> clients, db |-> db_clients, out |-> outbound, failed |-> <<>>]

\* MessageBroker::handle_send up to the end of broadcast's scan: the push, then
\* the enqueues under the read lock (the registry is not changed yet).
handle_send(id, content) ==
    LET p == push(messages, next_id, id, content, now)
        b == broadcast(clients, outbound, p.message)
    IN  IF p.returns
        THEN [handler_same EXCEPT
                 !.q = p.q,
                 !.pushed = Append(pushed, p.message),
                 !.next_id = next_id + 1,
                 !.out = b.out,
                 !.reg = clients,
                 !.failed = <<b.failed>>]
        ELSE [handler_same EXCEPT !.q = p.q, !.hung = TRUE]

\* MessageBroker::handle_client_message
handle_client_message(id, msg) ==
    CASE msg.type = "auth" ->
            [handler_same EXCEPT
                !.reg = handle_auth(id, msg.code).reg,
                !.db = handle_auth(id, msg.code).db,
                !.out = handle_auth(id, msg.code).out]
      [] msg.type = "send" -> handle_send(id, msg.content)
      [] msg.type = "receive" ->
            [handler_same EXCEPT
                !.q = handle_receive(id, msg.since).q,
                !.out = handle_receive(id, msg.since).out]
      [] msg.type = "ping" ->
            [handler_same EXCEPT !.out = send_to_client(outbound, id, Pong).out]
      [] OTHER -> handler_same

\* One arm of the match in MessageBroker::run.
handle_command(cmd) ==
    CASE cmd.cmd = "client_message" ->
            handle_client_message(cmd.client_id, cmd.message)
      [] cmd.cmd = "client_disconnected" ->
            [handler_same EXCEPT !.reg = remove_client(clients, cmd.client_id)]
      [] OTHER -> handler_same

\* BrokerHandle::send_command
SendCommand(cmd) ==
    /\ Len(cmd_sent) < MaxSent
    /\ LET sent == chan_send(cmd_rx, loop_on, cmd)
       IN  /\ cmd_rx' = sent.q
           /\ cmd_sent' = IF sent.ok THEN Append(cmd_sent, cmd) ELSE cmd_sent
    /\ UNCHANGED <<cmd_log, loop_on, bc>>
    /\ UNCHANGED <<qvars, bvars>>
    /\ UNCHANGED non_kvars

\* One turn of MessageBroker::run: recv, then the command's arm.  Shutdown
\* breaks the loop and run returns, dropping the receiver with what it holds.
LoopRecv ==
    /\ loop_on
    /\ ~hung
    /\ cmd_rx # <<>>
    /\ bc.pc # "scanned"
    /\ LET r == recv(cmd_rx)
           h == handle_command(r.cmd)
       IN  /\ cmd_log' = Append(cmd_log, r.cmd)
           /\ loop_on' = (r.cmd.cmd # "shutdown")
           /\ cmd_rx' = IF r.cmd.cmd = "shutdown" THEN <<>> ELSE r.rest
           /\ messages' = h.q
           /\ hung' = h.hung
           /\ pushed' = h.pushed
           /\ next_id' = h.next_id
           /\ clients' = h.reg
           /\ db_clients' = h.db
           /\ outbound' = h.out
           /\ bc' = IF h.failed = <<>> THEN bc
                    ELSE [pc |-> IF h.failed[1] = {} THEN "returned" ELSE "scanned",
                          failed |-> h.failed[1],
                          before |-> clients,
                          open |-> rx_open,
                          after |-> IF h.failed[1] = {} THEN h.reg ELSE <<>>]
    /\ UNCHANGED <<cmd_sent, max_size, ttl, now, ret, cleared, has_store, server_id,
                   rx_open, next_client, handled>>
    /\ UNCHANGED non_kvars

\* ClientManager::broadcast after its scan: the write lock, the removals, and
\* the return to handle_send and to the loop.
BroadcastRemove ==
    /\ bc.pc = "scanned"
    /\ clients' = remove_failed(clients, bc.failed)
    /\ bc' = [bc EXCEPT !.pc = "returned", !.after = clients']
    /\ UNCHANGED <<cmd_rx, cmd_sent, cmd_log, loop_on>>
    /\ UNCHANGED qvars
    /\ UNCHANGED <<has_store, server_id, db_clients, outbound, rx_open, next_client,
                   handled>>
    /\ UNCHANGED non_kvars

InitLoop == Init /\ max_size = MaxSize /\ has_store

NextLoop ==
    \/ Accept
    \/ \E id \in SessionIds : CloseTransport(id)
    \/ \E cmd \in LoopCmds : SendCommand(cmd)
    \/ LoopRecv
    \/ BroadcastRemove

SpecLoop == InitLoop /\ [][NextLoop]_vars

\* The loop of a broker built with any cap, the runtime scheduling its task:
\* a recv with a command waiting returns, a broadcast gets its write lock.
InitLoopAny == Init

LoopFairness == WF_vars(LoopRecv) /\ WF_vars(BroadcastRemove)

SpecLoopFair == InitLoopAny /\ [][NextLoop]_vars /\ LoopFairness

\* ----------------------------------------------------------------- SpecAuth
\* The broker of a persistent server whose StateStore can fail: handle_auth
\* with update_client_status returning an error.

\* MessageBroker::handle_auth, update_client_status returning Ok or Err: the
\* error leaves with `?`, after authenticate_client and before the response.
handle_auth_store(id, code, update_ok) ==
    LET a == authenticate_client(clients, id)
        found == get_client_by_code(db_clients, code)
    IN  IF /\ has_store
           /\ found # <<>>
           /\ ~(server_id # NoServer /\ found[1].server_id # server_id)
           /\ a.ok
           /\ ~update_ok
        THEN [reg |-> a.reg, db |-> db_clients, out |-> outbound]
        ELSE handle_auth(id, code)

\* ClientMessage{Auth{code, ..}} on a store that may fail.
HandleAuthStore(id, code, update_ok) ==
    /\ Handles(id)
    /\ clients' = handle_auth_store(id, code, update_ok).reg
    /\ db_clients' = handle_auth_store(id, code, update_ok).db
    /\ outbound' = handle_auth_store(id, code, update_ok).out
    /\ UNCHANGED qvars
    /\ UNCHANGED <<xvars, has_store, server_id, rx_open, next_client>>

InitAuth == Init /\ has_store

NextAuth ==
    \/ Accept
    \/ \E id \in SessionIds : CloseTransport(id)
    \/ \E id \in SessionIds : HandleDisconnected(id)
    \/ \E id \in SessionIds, code \in AuthCodes, update_ok \in BOOLEAN :
          HandleAuthStore(id, code, update_ok)
    \/ \E id \in SessionIds : HandlePing(id)

SpecAuth == InitAuth /\ [][NextAuth]_vars

\* -------------------------------------------------------------- SpecManager
\* ServerManager with the commands that end an instance: stop_server, and the
\* create-server command returning from ctrl_c.
stop_server_keeps_status(insts, servers, name, shutdown_ok) ==
    IF name \in DOMAIN insts
    THEN [instances |-> [n \in DOMAIN insts \ {name} |-> insts[n]],
          servers |-> servers,
          ok |-> shutdown_ok]
    ELSE [instances |-> insts, servers |-> servers, ok |-> FALSE]

\* ServerManager::stop_server: the instance is taken out of the map; with none
\* the call bails; shutdown()'s error returns with `?` before the status is
\* written.
stop_server(insts, servers, name, shutdown_ok) ==
    IF name \in DOMAIN insts
    THEN [instances |-> [n \in DOMAIN insts \ {name} |-> insts[n]],
          servers |-> IF shutdown_ok
                      THEN update_server_status(servers, insts[name], "Stopped")
                      ELSE servers,
          ok |-> shutdown_ok]
    ELSE [instances |-> insts, servers |-> servers, ok |-> FALSE]

\* A call of ServerManager::stop_server with any name.
StopServerCall(name, shutdown_ok) ==
    LET r == stop_server(instances, db_servers, name, shutdown_ok)
    IN  /\ instances' = r.instances
        /\ db_servers' = r.servers
        /\ stop_ret' = <<[name |-> name, ok |-> r.ok]>>
        /\ UNCHANGED <<foreign_keys, db_connections, calls, deleted, connect_ret>>
        /\ UNCHANGED <<qvars, bvars, svars, gvars, cvars, hvars, tvars, lvars, pvars,
                       wvars, kvars>>

\* handle_create_server after ctrl_c: instance.shutdown(), whatever it returns,
\* and the command ends; the process's map of instances goes with it.
CtrlC(name) ==
    /\ name \in DOMAIN instances
    /\ instances' = [n \in DOMAIN instances \ {name} |-> instances[n]]
    /\ UNCHANGED <<foreign_keys, db_servers, db_connections, calls, deleted>>
    /\ UNCHANGED <<bvars, non_dvars>>

NextManager ==
    \/ \E name \in ServerNames : CreateServerCall(name)
    \/ \E c \in CallIds : CreateServerCheck(c)
    \/ \E c \in CallIds, tor_ok \in BOOLEAN : NewServer(c, tor_ok)
    \/ \E c \in CallIds : RegisterServer(c)
    \/ \E name \in ServerNames, ok \in BOOLEAN : StopServerCall(name, ok)
    \/ \E name \in ServerNames : CtrlC(name)
    \/ \E force \in BOOLEAN : Cleanup(force)

\* The runtime runs every create_server call to its end.
ManagerFairness ==
    /\ WF_vars(\E c \in CallIds : CreateServerCheck(c))
    /\ WF_vars(\E c \in CallIds, tor_ok \in BOOLEAN : NewServer(c, tor_ok))
    /\ WF_vars(\E c \in CallIds : RegisterServer(c))

SpecManager == InitStore /\ [][NextManager]_vars /\ ManagerFairness

\* -------------------------------------------------------------- SpecConnect
\* commands.rs handle_connect: the client side of the handshake, next to the
\* broker a server may have created (NewBrokerHandshake).
FortressAddress == "fortress-address.onion"

\* BrokerHandshake::validate_code
validate_code(h, provided_code) == h.code = provided_code

\* The connect command at time t: the candidates, then, when there is a first
\* candidate, an Introduction and a ConnectionRecord; an error otherwise.
HandleConnect(namespace, code, t, time_window) ==
    LET ids == possible_identifiers(namespace, code, t, time_window)
        intro == create_introduction(FortressAddress, 1, 24, t)
    IN  /\ connect_ret' =
              <<[namespace |-> namespace, code |-> code, ids |-> ids,
                 ok |-> ids # <<>>,
                 intro |-> IF ids # <<>> THEN <<intro>> ELSE <<>>]>>
        /\ db_connections' =
              IF ids # <<>> THEN db_connections \cup {intro.fortress_address}
              ELSE db_connections
        /\ UNCHANGED <<foreign_keys, db_servers, instances, calls, deleted, stop_ret>>
        /\ UNCHANGED <<qvars, bvars, svars, gvars, cvars, hvars, tvars, lvars, pvars,
                       wvars, kvars>>

ConnectTimes == {0, 60, MaxTime}

InitConnect == Rest /\ XInit

NextConnect ==
    \/ \E ns \in HsNamespaces, code \in HsCodes, t \in 0..MaxTime :
          NewBrokerHandshake(ns, code, t)
    \/ \E ns \in HsNamespaces, code \in HsCodes, t \in ConnectTimes, w \in 0..MaxWindow :
          HandleConnect(ns, code, t, w)

SpecConnect == InitConnect /\ [][NextConnect]_vars

\* ------------------------------------------------------- queue properties
Min(a, b) == IF a <= b THEN a ELSE b
LastK(s, k) == SubSeq(s, Len(s) - k + 1, Len(s))
IsRead == ret.op \in {"get_all", "get_since"}
NoneExpiredAt(t) == \A i \in 1..Len(pushed) : t < pushed[i].expires_at

\* C1: every message a read (get_all, get_since) returns is unexpired at the
\* moment of the read: now < m.expires_at.
QueueTTL ==
    IsRead => \A i \in 1..Len(ret.result) : ret.at < ret.result[i].expires_at

\* C1 witness: a read returned a live message after scrubbing an expired one.
QueueTTLWitness ==
    /\ IsRead
    /\ ret.result # <<>>
    /\ \E i \in 1..Len(pushed) : ret.at >= pushed[i].expires_at

\* C2: after any operation has returned, the queue holds at most max_size
\* messages.
QueueBound == Len(messages) <= max_size

\* C2 witness: a push returned on a queue that was full, and the queue is
\* still exactly at its cap.
QueueBoundWitness ==
    /\ ret.op = "push"
    /\ max_size >= 1
    /\ Len(pushed) > max_size
    /\ Len(messages) = max_size

\* C3: while no message has expired (and the queue was never cleared), get_all
\* after n pushes returns exactly the last min(n, max_size) pushed messages,
\* oldest first.
QueueFifoCap ==
    (ret.op = "get_all" /\ ~cleared /\ NoneExpiredAt(ret.at))
        => ret.result = LastK(pushed, Min(Len(pushed), max_size))

\* C3 witness: get_all after more pushes than the cap, all messages live, on a
\* queue of at least two.
QueueFifoCapWitness ==
    /\ ret.op = "get_all"
    /\ ~cleared
    /\ NoneExpiredAt(ret.at)
    /\ max_size >= 2
    /\ Len(pushed) > max_size

\* C4: senders always succeed: no push is ever left spinning, whatever
\* max_size the queue was constructed with.
SendersAlwaysSucceed == ~hung

\* ------------------------------------------------------ broker properties
Authenticated(reg) == {id \in DOMAIN reg : reg[id].authenticated}
IsBroadcast(msg) == msg.type = "broadcast"
IsAuthResponse(msg, success) == msg.type = "auth_response" /\ msg.success = success
Enqueued(id, msg) == outbound'[id] = Append(outbound[id], msg)
OthersUntouched(id) == \A s \in SessionIds \ {id} : outbound'[s] = outbound[s]
\* the code names a record of this instance's server
ValidCode(code) ==
    /\ code \in DOMAIN db_clients
    /\ db_clients[code].server_id = server_id

\* C5: when the broker has handled Send{c} from session X, every session S
\* that was authenticated when the broadcast scanned the registry either has
\* Broadcast{m} with m.content = c and m.from = X as the newest entry of its
\* outbound queue, or is no longer in the registry.
BroadcastFanout ==
    [][\A x \in SessionIds, c \in Contents :
          (HandleSend(x, c) /\ ~hung') =>
              \A s \in Authenticated(clients) :
                  \/ s \notin DOMAIN clients'
                  \/ /\ Len(outbound'[s]) = Len(outbound[s]) + 1
                     /\ SubSeq(outbound'[s], 1, Len(outbound[s])) = outbound[s]
                     /\ IsBroadcast(outbound'[s][Len(outbound'[s])])
                     /\ outbound'[s][Len(outbound'[s])].message.content = c
                     /\ outbound'[s][Len(outbound'[s])].message.from = x]_vars

\* C5 witness: a session still registered holds a Broadcast of another
\* session's message while a session that was authenticated and had closed is
\* out of the registry.
BroadcastFanoutWitness ==
    \E s \in DOMAIN clients, x \in SessionIds \ DOMAIN clients :
        /\ x < next_client
        /\ \E i \in 1..Len(outbound[x]) : IsAuthResponse(outbound[x][i], TRUE)
        /\ \E i \in 1..Len(outbound[s]) :
              /\ IsBroadcast(outbound[s][i])
              /\ outbound[s][i].message.from = x

\* The positions of the Broadcasts on a session's outbound queue.
BroadcastAt(s) == {i \in 1..Len(outbound[s]) : IsBroadcast(outbound[s][i])}

\* C6: on every session's outbound queue the Broadcasts stand in the order in
\* which the broker handled their Sends (message ids are numbered in the order
\* handle_send pushes them).
FifoPerSession ==
    \A s \in SessionIds : \A i, j \in BroadcastAt(s) :
        i < j => outbound[s][i].message.id < outbound[s][j].message.id

\* C6 witness: a session that received the Broadcasts of two Sends from two
\* different sessions.
FifoPerSessionWitness ==
    \E s \in SessionIds : \E i, j \in BroadcastAt(s) :
        /\ i < j
        /\ outbound[s][i].message.from # outbound[s][j].message.from

AuthRejected ==
    [][\A id \in SessionIds, code \in AuthCodes :
          (HandleAuth(id, code) /\ has_store /\ ~ValidCode(code)) =>
              /\ clients' = clients
              /\ db_clients' = db_clients
              /\ messages' = messages
              /\ OthersUntouched(id)
              /\ IF id \in DOMAIN clients /\ id \in rx_open
                 THEN Enqueued(id, [type |-> "auth_response", success |-> FALSE,
                                    message |-> "Invalid code",
                                    server_id |-> server_id])
                 ELSE outbound'[id] = outbound[id]]_vars

\* C8 witness: a session was refused and then, still registered, accepted: its
\* outbound queue holds the failure response followed by the success response.
AuthRejectedWitness ==
    /\ has_store
    /\ \E id \in Authenticated(clients) : \E i, j \in 1..Len(outbound[id]) :
          /\ i < j
          /\ IsAuthResponse(outbound[id][i], FALSE)
          /\ outbound[id][i].message = "Invalid code"
          /\ IsAuthResponse(outbound[id][j], TRUE)

\* C9: an Auth presenting a code whose record revoke-client has set to
\* disconnected is rejected: it authenticates nobody and is not answered with
\* success.
RevocationTakesEffect ==
    [][\A id \in SessionIds, code \in Codes :
          (HandleAuth(id, code) /\ db_clients[code].status = "disconnected") =>
              /\ clients' = clients
              /\ ~Enqueued(id, AuthResponse(TRUE, "Authenticated"))]_vars

\* C10: a session that is authenticated stays authenticated for as long as it
\* is in the registry.
AuthMonotone ==
    [][\A id \in DOMAIN clients \cap DOMAIN clients' :
          clients[id].authenticated => clients'[id].authenticated]_vars

\* C10 witness: an authenticated session had a later Auth refused and is still
\* authenticated.
AuthMonotoneWitness ==
    \E id \in Authenticated(clients) : \E i, j \in 1..Len(outbound[id]) :
        /\ i < j
        /\ IsAuthResponse(outbound[id][i], TRUE)
        /\ IsAuthResponse(outbound[id][j], FALSE)

\* ------------------------------------------------- session lifecycle
\* The sessions whose transport was accepted and has since closed.
Closed == {id \in SessionIds : id < next_client /\ id \notin rx_open}

\* C11: an accepted transport's session is in the registry from the step that
\* accepts it, and every session whose transport has closed is eventually out
\* of the registry, authenticated or not.
SessionLifecycle ==
    /\ [][Accept => next_client \in DOMAIN clients']_vars
    /\ \A id \in SessionIds : (id \in Closed) ~> (id \notin DOMAIN clients)

\* C11 witness: a session that closed without ever being authenticated has
\* been removed while another session is still registered.
SessionLifecycleWitness ==
    \E id \in Closed :
        /\ id \notin DOMAIN clients
        /\ \A i \in 1..Len(outbound[id]) : ~IsAuthResponse(outbound[id][i], TRUE)
        /\ DOMAIN clients # {}

\* ------------------------------------------------------ stream properties
\* The ClientMessages among the commands sent to the broker, in order.
Delivered == SelectSeq(commands, LAMBDA c : c.cmd = "client_message")

\* The messages of the well-formed lines read so far, in order.
RECURSIVE WellFormed(_)
WellFormed(log) ==
    IF log = <<>> THEN <<>>
    ELSE IF log[1].did = "forward" THEN log[1].msg \o WellFormed(Tail(log))
    ELSE WellFormed(Tail(log))

\* C12: a line that does not parse puts Error{message} on client_tx (when its
\* receiver exists) and nothing else: the reader goes on reading, nothing is
\* sent towards the broker and no disconnect is notified; and, bad lines or
\* not, the well-formed lines read are the messages delivered to the broker
\* followed by those the forwarder still holds, in the order read.
ParseErrorKeepsSession ==
    /\ [][\A line \in Lines :
            (ReadLine(line) /\ trim(line) # <<>> /\ ~from_bytes(line).ok) =>
                /\ rd_state' = "reading"
                /\ client_tx' = IF client_rx_open
                                THEN Append(client_tx, Error("Invalid message format"))
                                ELSE client_tx
                /\ broker_tx' = broker_tx
                /\ commands' = commands]_vars
    /\ [](incoming_rx_open /\ broker_rx_open =>
            [i \in 1..Len(Delivered) |-> Delivered[i].message] \o broker_tx
                = WellFormed(rd_log))

\* C12 witness: the reader is still reading after a bad line, the Error is on
\* client_tx, and a well-formed line read after the bad one has reached the
\* broker's command channel.
ParseErrorKeepsSessionWitness ==
    /\ rd_state = "reading"
    /\ \E i \in 1..Len(client_tx) : client_tx[i].type = "error"
    /\ \E i, j \in 1..Len(rd_log) :
          /\ i < j
          /\ rd_log[i].did = "error"
          /\ rd_log[j].did = "forward"
          /\ Len(Delivered) = Len(WellFormed(rd_log))
          /\ Delivered # <<>>
          /\ Delivered[Len(Delivered)].message = rd_log[j].msg[1]

\* ------------------------------------------------------ bridge properties
\* The ports a bridge is to serve: 80 for the web bridge, 9999 for msgsrv.
Permitted == IF bridge = "web" THEN {WebPort} ELSE {MsgPort}

\* C13: in both bridges a handler that went past inspecting its request either
\* had Begin on a permitted port, or tore the circuit down and never spliced.
OnlyPermittedPorts ==
    \A i \in 1..Len(tasks) :
        (tasks[i].pc # "spawned"
            /\ ~(tasks[i].kind = "begin" /\ tasks[i].port \in Permitted)) =>
                /\ tasks[i].outcome = "torn_down"
                /\ ~tasks[i].spliced

\* C15: while the request stream has not ended the loop is ready to take the
\* next request, whatever the handlers of earlier requests are doing and
\* however they ended; and the loop ends in a step of its own, not in a step
\* of a handler.
BridgeKeepsAccepting ==
    /\ [](listening /\ Len(tasks) < MaxReqs =>
            ENABLED (\E kind \in ReqKinds, port \in Ports : TakeRequest(kind, port)))
    /\ [][listening /\ ~listening' => tasks' = tasks]_vars
    /\ [][tasks' # tasks => listening' = listening]_vars

\* C15 witness: a request was taken after an earlier handler had failed and
\* while an earlier handler was still at work, and the loop is still running
\* with a failed handler behind it and another one copying.
BridgeKeepsAcceptingWitness ==
    /\ listening
    /\ \E i \in 1..Len(tasks) : tasks[i].after_failure /\ tasks[i].beside_busy
    /\ \E i, j \in 1..Len(tasks) :
          /\ tasks[i].outcome \in {"accept_failed", "connect_failed", "copy_err"}
          /\ tasks[j].pc = "copying"

IdentifierInjective ==
    \A i, j \in 1..Len(idents) :
        (idents[i].id = idents[j].id) <=>
            /\ idents[i].namespace = idents[j].namespace
            /\ idents[i].timestamp = idents[j].timestamp
            /\ idents[i].code = idents[j].code

\* The broker's bucket lies within the client's window of w minutes around the
\* client's time.
InWindow ==
    /\ broker_hs # <<>> /\ client_ids # <<>>
    /\ broker_hs[1].hs.namespace = client_ids[1].namespace
    /\ broker_hs[1].hs.code = client_ids[1].code
    /\ broker_hs[1].hs.timestamp - client_ids[1].at <= client_ids[1].window * 60
    /\ client_ids[1].at - broker_hs[1].hs.timestamp <= client_ids[1].window * 60

\* C17: with the same namespace and code, when the broker's bucket lies within
\* w minutes of the client's time, possible_identifiers(w) holds the broker's
\* identifier, paired with the broker's bucket.
WindowCoverage ==
    InWindow =>
        \E i \in 1..Len(client_ids[1].ids) :
            client_ids[1].ids[i] = <<broker_hs[1].hs.timestamp, identifier(broker_hs[1].hs)>>

\* C17 witness: a broker created within a minute, in the bucket after the
\* client's, is found at the upper end of a window of one minute.
WindowCoverageWitness ==
    /\ InWindow
    /\ broker_hs[1].at % 60 # 0
    /\ client_ids[1].window = 1
    /\ client_ids[1].at % 60 # 0
    /\ broker_hs[1].hs.timestamp > client_ids[1].at
    /\ client_ids[1].ids[3][2] = identifier(broker_hs[1].hs)

\* ------------------------------------------------------- token properties
\* C18: an access token issued in an Introduction carries
\* expires_at = issue time + token_ttl, and the server rejects every use of
\* that token made at or after expires_at.
TokenExpiry ==
    \A i \in 1..Len(intros) :
        /\ intros[i].intro.expires_at = intros[i].issued_at + intros[i].token_ttl
        /\ \A u \in 1..Len(token_use) :
               (/\ token_use[u].token = intros[i].intro.access_token
                /\ token_use[u].at >= intros[i].intro.expires_at)
               => ~token_use[u].result

\* ---------------------------------------------------- listener properties
\* C19: an ephemeral broker made by new_broker(timeout) terminates itself once
\* the timeout has elapsed: from then on its listener has stopped (it accepts
\* no new connection), its socket file is removed and its broker loop has
\* stopped, even when a client session is open as the timeout fires.
EphemeralAutoTerminates ==
    (lkind = "broker" /\ timer = "fired" /\ lis_pc \in {"select", "session"})
        ~> [](~ListenerAlive /\ ~socket_file /\ ~loop_running)

\* C20: once a running ServerInstance is torn down (shutdown() is called or
\* the instance is dropped), its listener eventually stops and its socket
\* file no longer exists, whether or not a client session is open then.
TeardownRemovesSocket ==
    (lis_pc \in {"select", "session"} /\ inst # "running")
        ~> (~ListenerAlive /\ ~socket_file)

\* C21: a failure to bind the UDS listener is returned as an error by
\* new_server / new_broker.  Every state of SpecListener follows an Ok from
\* new_server or new_broker, so in none of them has the listener's bind failed.
BindFailureReturned == lis_pc # "failed"

\* ------------------------------------------------------- store properties
CallFailed(pc) == pc \in {"exists", "tor_err", "store_err"}

NamePresent(name) == \E r \in db_servers : r.name = name

\* C22: under any interleaving of create_server calls the servers table holds
\* at most one row per name, and a create_server for a name that is present
\* (when the call checks, or when it comes to save its row) fails and leaves
\* the tables and the manager's map of running instances as they were.
ServerNamesUnique ==
    /\ [](\A r1, r2 \in db_servers : r1.name = r2.name => r1 = r2)
    /\ [][\A c \in 1..Len(calls) :
             (/\ calls[c].pc \in {"check", "new_server"}
              /\ calls'[c].pc # calls[c].pc
              /\ NamePresent(calls[c].name)) =>
                 /\ CallFailed(calls'[c].pc)
                 /\ UNCHANGED <<db_servers, db_clients, db_connections, instances>>]_vars

\* C22 witness: two calls for one name both passed the check; one saved its
\* row and registered its instance, the other failed on saving.
ServerNamesUniqueWitness ==
    \E c1, c2 \in 1..Len(calls) :
        /\ calls[c1].name = calls[c2].name
        /\ calls[c1].pc = "ok"
        /\ calls[c2].pc = "store_err"
        /\ \E r \in db_servers : r.id = calls[c1].id

\* C23: after delete_server has removed a server's row, no clients row with
\* that server's id remains, so get_client_by_code finds none of its codes,
\* and an Auth that the deleted server's broker still handles is rejected
\* whatever code it presents.
CascadeDelete ==
    /\ [](\A code \in Codes :
            \A found \in {get_client_by_code(db_clients, code)} :
                found # <<>> => found[1].server_id \notin deleted)
    /\ [][\A id \in SessionIds, code \in Codes :
             (HandleAuth(id, code) /\ server_id \in deleted) =>
                 /\ clients' = clients
                 /\ ~Enqueued(id, AuthResponse(TRUE, "Authenticated"))]_vars

StoppedRows(servers) ==
    {r \in servers : ServerStatus_from_string(r.status) = "Stopped"}

\* C24: cleanup deletes exactly the server rows whose status is stopped, and
\* only with force; with no stopped server, or without force, it leaves the
\* servers, clients and connections tables as they were; a second cleanup
\* right after the first changes nothing more.
CleanupExact ==
    [][\A force \in BOOLEAN :
          Cleanup(force) =>
              /\ db_servers' = IF force THEN db_servers \ StoppedRows(db_servers)
                               ELSE db_servers
              /\ db_connections' = db_connections
              /\ (~force \/ StoppedRows(db_servers) = {}) =>
                     (db_servers' = db_servers /\ db_clients' = db_clients)
              /\ LET again == handle_cleanup(db_servers', db_clients',
                                             foreign_keys, force)
                 IN  again.servers = db_servers' /\ again.clients = db_clients']_vars

\* C24 witness: a forced cleanup has deleted a stopped server and left a
\* running server and a connection record in place.
CleanupExactWitness ==
    /\ deleted # {}
    /\ StoppedRows(db_servers) = {}
    /\ \E r \in db_servers : r.status = "running"
    /\ db_connections # {}

SessionsConcurrent ==
    (backlog > 0 /\ lis_pc \in {"select", "session"}) => ENABLED ListenerAccept

\* ---------------------------------------------------------- writer properties
\* C27: every message enqueued on the session's outbound queue while the
\* transport is open is eventually written to the transport by the session's
\* writer, in enqueue order: once the queue has held n messages, either the
\* first n messages written are those n, or the transport has closed.
OutboundWritten ==
    \A n \in 1..(MaxOut + 1) :
        (Len(client_tx) >= n /\ rd_state = "reading")
            ~> (\/ rd_state # "reading"
                \/ /\ Len(wire) >= n
                   /\ SubSeq(wire, 1, n) = SubSeq(client_tx, 1, n))

\* -------------------------------------------------------- registry properties
\* C28: broadcast enqueues Broadcast only on sessions whose authenticated flag
\* is true when it scans the registry: a session that is registered and has
\* not authenticated has no Broadcast on its outbound queue.
BroadcastAuthenticatedOnly ==
    \A s \in DOMAIN clients : ~clients[s].authenticated => BroadcastAt(s) = {}

\* C28 witness: a registered, open, unauthenticated session has no Broadcast
\* while a session registered after it holds one: the broadcast scanned both.
BroadcastAuthenticatedOnlyWitness ==
    \E s, t \in DOMAIN clients :
        /\ s < t
        /\ ~clients[s].authenticated
        /\ s \in rx_open
        /\ BroadcastAt(s) = {}
        /\ BroadcastAt(t) # {}

\* C29: when a broadcast has returned, the registry is the registry before
\* the call without exactly the sessions whose enqueue failed in it (the
\* authenticated sessions whose receiver was dropped), with every other
\* session as it was and every session added during the broadcast kept; and
\* the step of a broadcast that removes sessions removes all of them at once.
BroadcastRemovesExactlyFailed ==
    /\ [](bc.pc = "returned" =>
            /\ bc.failed = Authenticated(bc.before) \ bc.open
            /\ DOMAIN bc.before \ DOMAIN bc.after = bc.failed
            /\ \A s \in DOMAIN bc.before \ bc.failed : bc.after[s] = bc.before[s])
    /\ [][bc.pc = "scanned" =>
            /\ DOMAIN clients \subseteq DOMAIN bc.before \cup DOMAIN clients'
            /\ DOMAIN clients \ DOMAIN clients' # {} =>
                  /\ DOMAIN clients \ DOMAIN clients' = bc.failed
                  /\ bc'.pc = "returned"]_vars

\* C29 witness: a broadcast has returned having removed a session, and a
\* session that was added between its scan and its removals is in the
\* registry it left.
BroadcastRemovesExactlyFailedWitness ==
    /\ bc.pc = "returned"
    /\ bc.failed # {}
    /\ DOMAIN bc.after \ DOMAIN bc.before # {}

\* ---------------------------------------------------- broker loop properties
IsPrefixOf(a, b) == Len(a) <= Len(b) /\ SubSeq(b, 1, Len(a)) = a

\* C30: Shutdown terminates the broker loop.  The loop receives the commands
\* in the order they were sent on the channel, Shutdown is the last command
\* it receives, and once it has handled Shutdown no command is received and
\* the message queue, every outbound queue and every registered session stay
\* as they are (the listener, which is no command, may still register one).
ShutdownTerminates ==
    /\ [](/\ IsPrefixOf(cmd_log, cmd_sent)
          /\ \A i \in 1..(Len(cmd_log) - 1) : cmd_log[i] # BrokerCommand_Shutdown
          /\ ~loop_on =>
                /\ cmd_log # <<>>
                /\ cmd_log[Len(cmd_log)] = BrokerCommand_Shutdown)
    /\ [][~loop_on =>
            /\ cmd_log' = cmd_log
            /\ messages' = messages
            /\ outbound' = outbound
            /\ \A s \in DOMAIN clients :
                  s \in DOMAIN clients' /\ clients'[s] = clients[s]]_vars

\* C30 witness: the loop has ended on Shutdown after handling a Send that
\* reached the queue, and a command sent behind Shutdown was left unhandled.
ShutdownTerminatesWitness ==
    /\ ~loop_on
    /\ Len(cmd_log) >= 2
    /\ pushed # <<>>
    /\ Len(cmd_sent) > Len(cmd_log)
    /\ cmd_sent[Len(cmd_sent)] # BrokerCommand_Shutdown

\* ------------------------------------------------- request/reply properties
\* The messages Receive{since} is answered with: get_since(since) when since
\* is given, get_all otherwise.
Requested(since) ==
    IF since = <<>> THEN get_all(messages, now).result
    ELSE get_since(messages, now, since[1]).result

\* C31: Receive and Ping are answered to the requesting session only, whether
\* it has authenticated or not: Receive{since} from a registered session whose
\* receiver exists enqueues one ReceiveResponse with the requested messages,
\* Ping one Pong, on the sender's outbound queue; no other outbound queue, no
\* registry entry and no authenticated flag changes.
ReplyToSenderOnly ==
    [][\A id \in SessionIds :
          /\ \A since \in Sinces :
                (HandleReceive(id, since) /\ id \in DOMAIN clients /\ id \in rx_open) =>
                    /\ Enqueued(id, ReceiveResponse(Requested(since)))
                    /\ OthersUntouched(id)
                    /\ clients' = clients
          /\ (HandlePing(id) /\ id \in DOMAIN clients /\ id \in rx_open) =>
                /\ Enqueued(id, Pong)
                /\ OthersUntouched(id)
                /\ clients' = clients
                /\ messages' = messages]_vars

\* C31 witness: a session that has not authenticated holds a Pong and, as the
\* newest entry of its queue, a ReceiveResponse with a message in it, while
\* another registered session's queue holds neither.
ReplyToSenderOnlyWitness ==
    \E id, other \in DOMAIN clients :
        /\ id # other
        /\ ~clients[id].authenticated
        /\ outbound[id] # <<>>
        /\ outbound[id][Len(outbound[id])].type = "receive_response"
        /\ outbound[id][Len(outbound[id])].messages # <<>>
        /\ \E i \in 1..Len(outbound[id]) : outbound[id][i] = Pong
        /\ \A i \in 1..Len(outbound[other]) :
              outbound[other][i].type \notin {"receive_response", "pong"}

\* C32: a well-formed message that is unexpected from a client is answered
\* with an Error on the sender's outbound queue and does not disconnect the
\* session; the message queue and the registry with its flags stay unchanged.
UnexpectedAnswered ==
    [][\A id \in SessionIds :
          (HandleOther(id) /\ id \in DOMAIN clients /\ id \in rx_open) =>
              /\ Len(outbound'[id]) = Len(outbound[id]) + 1
              /\ outbound'[id][Len(outbound'[id])].type = "error"
              /\ SubSeq(outbound'[id], 1, Len(outbound[id])) = outbound[id]
              /\ OthersUntouched(id)
              /\ clients' = clients
              /\ messages' = messages]_vars

\* ----------------------------------------------------- connect properties
\* C33: an Introduction is issued and a ConnectionRecord stored only after a
\* broker matching one of the client's candidate identifiers was contacted and
\* validate_code succeeded on the client's code: whenever connect has returned
\* Ok there is such a broker, and with none nothing is stored.
ConnectAfterValidation ==
    /\ (connect_ret # <<>> /\ connect_ret[1].ok) =>
          /\ broker_hs # <<>>
          /\ \E i \in 1..Len(connect_ret[1].ids) :
                connect_ret[1].ids[i][2] = identifier(broker_hs[1].hs)
          /\ validate_code(broker_hs[1].hs, connect_ret[1].code)
    /\ broker_hs = <<>> => db_connections = {}

\* ----------------------------------------------------- manager properties
StatusOf(servers, id) == {r.status : r \in {x \in servers : x.id = id}}

ShutDown(c) ==
    /\ c \in 1..Len(calls)
    /\ calls[c].pc = "ok"
    /\ \/ calls[c].name \notin DOMAIN instances
       \/ instances[calls[c].name] # calls[c].id

\* C39: once a persistent server's instance has been shut down, by
\* stop_server or by the create-server command ending on Ctrl+C, its
\* ServerRecord's status is eventually stopped (or the record is gone).
StatusFollowsInstance ==
    \A c \in CallIds :
        ShutDown(c) ~> (/\ c \in 1..Len(calls)
                        /\ StatusOf(db_servers, calls[c].id) \subseteq {"stopped"})

\* The n-th command sent is sent before any Shutdown.
BeforeShutdown(n) ==
    /\ Len(cmd_sent) >= n
    /\ \A i \in 1..n : cmd_sent[i] # BrokerCommand_Shutdown

\* The command is a ClientMessage whose handling fails: a Ping, Receive or
\* Auth naming a client_id that is not in the registry.
HandlingFails(cmd) ==
    /\ cmd.cmd = "client_message"
    /\ cmd.message.type \in {"ping", "receive", "auth"}
    /\ cmd.client_id \notin DOMAIN clients

\* C35: no command but Shutdown stops the broker loop: every command sent
\* ahead of a Shutdown is received by the loop, in the order sent; and a
\* ClientMessage whose handling fails changes no state and leaves the loop
\* running.
OnlyShutdownStops ==
    /\ \A n \in 1..MaxSent :
          BeforeShutdown(n) ~> (Len(cmd_log) >= n /\ cmd_log[n] = cmd_sent[n])
    /\ [][(LoopRecv /\ HandlingFails(Head(cmd_rx))) =>
            /\ loop_on'
            /\ UNCHANGED <<messages, clients, db_clients, outbound>>]_vars

\* ------------------------------------------------- disconnect properties
\* C36: the broker never handles a ClientMessage of a session after that
\* session's ClientDisconnected: on the broker's command channel, which the
\* loop handles in order, no ClientMessage of the session stands behind its
\* disconnect notification.
NoMessageAfterDisconnect ==
    \A i, j \in 1..Len(commands) :
        (i < j /\ commands[i] = ClientDisconnected) =>
            commands[j].cmd # "client_message"

\* ---------------------------------------------- authentication properties
Unauthenticated(reg) == {id \in DOMAIN reg : ~reg[id].authenticated}

AuthAcknowledged ==
    [][\A id \in DOMAIN clients \cap rx_open :
          (/\ ~clients[id].authenticated
           /\ id \in DOMAIN clients'
           /\ clients'[id].authenticated) =>
              /\ Len(outbound'[id]) = Len(outbound[id]) + 1
              /\ IsAuthResponse(outbound'[id][Len(outbound'[id])], TRUE)]_vars

\* C40: ServerInstance::shutdown returns Ok in every state of the instance:
\* on a second call, and on an ephemeral broker whose auto-shutdown timeout
\* has already fired and stopped the listener.  No call returns an error.
ShutdownReturnsOk == shutdown_ret # "err"

====
